---- MODULE Spec2Model ----
(***************************************************************************)
(* Model of the Document Gateway (src/src/database.py, CouchDBClient) and  *)
(* of the Aggregation Engine (src/src/analytics.py, AnalyticsEngine)       *)
(* working against a CouchDB-style document store reached over HTTP.       *)
(*                                                                         *)
(* JSON values are tagged records, so that a number, a string, a boolean   *)
(* and a nested object are distinct values that can still be compared:     *)
(*   N(5)  a number      S("x")  a string      B(TRUE)  a boolean          *)
(*   T(2)  an ISO-8601 timestamp (the clock value it was taken at)         *)
(*   R(3)  a revision token      I(1)  a document identifier               *)
(*   O(f)  a nested object with members f                                  *)
(* A document is a function from a finite set of keys to such values       *)
(* (a Python dict).                                                        *)
(***************************************************************************)
EXTENDS Integers, Sequences, FiniteSets, TLC

VARIABLES
    db,        \* the store: document id -> stored document (with _id, _rev)
    nextRev,   \* the store's revision generator
    now,       \* the wall clock; it advances with every gateway call
    pc,        \* per caller: where it stands in its gateway call
    call,      \* per caller: the arguments of the call it is in
    pending,   \* per caller: local state carried between two HTTP requests
    result,    \* per caller: what its last finished call returned
    agg        \* the last aggregation run: its name, queries and outcome

vars == <<db, nextRev, now, pc, call, pending, result, agg>>

----------------------------------------------------------------------------
(* Bounds of the model *)

MaxDocs == 1
MaxTime == 3

----------------------------------------------------------------------------
(* JSON values *)

N(n) == [num |-> n]
S(s) == [str |-> s]
B(b) == [bool |-> b]
T(t) == [time |-> t]
R(r) == [rev |-> r]
I(i) == [id |-> i]
O(f) == [obj |-> f]
None == [none |-> TRUE]

L(seq) == [list |-> seq]

IsNum(v) == DOMAIN v = {"num"}
IsStr(v) == DOMAIN v = {"str"}
IsList(v) == DOMAIN v = {"list"}

(* Python truth value of a JSON value *)
Truthy(v) ==
    IF IsNum(v) THEN v.num # 0
    ELSE IF IsStr(v) THEN v.str # ""
    ELSE IF DOMAIN v = {"bool"} THEN v.bool
    ELSE v # None

(* Python dict operations *)
EmptyDoc == [k \in {} |-> None]
Has(d, k) == k \in DOMAIN d
Get(d, k, default) == IF k \in DOMAIN d THEN d[k] ELSE default
Put(d, k, v) == [x \in DOMAIN d \cup {k} |-> IF x = k THEN v ELSE d[x]]
DictUpdate(d, u) == [x \in DOMAIN d \cup DOMAIN u |-> IF x \in DOMAIN u THEN u[x] ELSE d[x]]
Del(d, k) == [x \in DOMAIN d \ {k} |-> d[x]]
Project(d, ks) == [x \in DOMAIN d \cap ks |-> d[x]]

----------------------------------------------------------------------------
(* Results and exceptions of the Python code.                              *)
(* An outcome is either a returned result dict or a raised exception.      *)

NoErr == [text |-> "", status |-> 0]
ErrText(t) == [text |-> t, status |-> 0]
ErrHttp(status) == [text |-> "HTTP", status |-> status]

Returned(success, error, message, payload) ==
    [raised |-> FALSE, success |-> success, error |-> error,
     message |-> message, payload |-> payload]
Raised(exc) ==
    [raised |-> TRUE, success |-> FALSE, error |-> ErrText(exc),
     message |-> "", payload |-> EmptyDoc]
NoResult == Returned(FALSE, NoErr, "none", EmptyDoc)

----------------------------------------------------------------------------
(* HTTP responses as the requests library hands them to the code: either   *)
(* a response with a status and a JSON body, or a transport exception.     *)

HttpResp(status, body) == [exc |-> "", status |-> status, body |-> body]
HttpExc(msg) == [exc |-> msg, status |-> 0, body |-> EmptyDoc]

(* What can go wrong with a request independently of the store's state:    *)
(* a transport exception, a server or authentication error status.         *)
Faults == {"none", "exc"}
GetFaults == Faults \cup {"garbled"}
ReadFaults == GetFaults \cup {"http500", "http401"}
FindFaults == Faults \cup {"http500"}
FaultResp(fault) ==
    IF fault = "exc" THEN HttpExc("ConnectionError")
    ELSE IF fault = "http401" THEN HttpResp(401, EmptyDoc)
    ELSE HttpResp(500, EmptyDoc)

----------------------------------------------------------------------------
(* The document store (CouchDB HTTP API) as the gateway's requests see it. *)
(* Each operator gives the response and the store after the request.       *)

DocIds == 1..MaxDocs
Stored(d, id, body, rev) ==
    [x \in DOMAIN d \cup {id} |->
        IF x = id THEN Put(Put(body, "_id", I(id)), "_rev", R(rev)) ELSE d[x]]
WriteOk(id, rev) == [ok |-> B(TRUE), id |-> I(id), rev |-> R(rev)]

(* GET /db/{id} *)
StoreGet(d, id) ==
    IF id \in DOMAIN d THEN HttpResp(200, d[id]) ELSE HttpResp(404, EmptyDoc)

(* PUT /db/{id}: a write to an existing document must carry its current    *)
(* revision, otherwise the store answers 409 and stores nothing.           *)
StorePut(d, id, body, rev) ==
    IF Has(body, "_id") /\ body["_id"] # I(id)
    THEN [resp |-> HttpResp(400, EmptyDoc), db |-> d]
    ELSE IF id \in DOMAIN d
    THEN IF Has(body, "_rev") /\ body["_rev"] = d[id]["_rev"]
         THEN [resp |-> HttpResp(201, WriteOk(id, rev)), db |-> Stored(d, id, body, rev)]
         ELSE [resp |-> HttpResp(409, EmptyDoc), db |-> d]
    ELSE IF Has(body, "_rev")
         THEN [resp |-> HttpResp(409, EmptyDoc), db |-> d]
         ELSE [resp |-> HttpResp(201, WriteOk(id, rev)), db |-> Stored(d, id, body, rev)]

(* POST /db: the store takes the body's _id or generates a fresh one.      *)
FreshId(d) == CHOOSE i \in DocIds \ DOMAIN d : \A j \in DocIds \ DOMAIN d : i <= j
StorePost(d, body, rev) ==
    LET id == IF Has(body, "_id") THEN body["_id"].id ELSE FreshId(d) IN
    IF id \in DOMAIN d \/ Has(body, "_rev")
    THEN [resp |-> HttpResp(409, EmptyDoc), db |-> d]
    ELSE [resp |-> HttpResp(201, WriteOk(id, rev)), db |-> Stored(d, id, body, rev)]

(* DELETE /db/{id}?rev= *)
StoreDelete(d, id, rev) ==
    IF id \notin DOMAIN d THEN [resp |-> HttpResp(404, EmptyDoc), db |-> d]
    ELSE IF d[id]["_rev"] = rev
    THEN [resp |-> HttpResp(200, [ok |-> B(TRUE), id |-> I(id)]),
          db |-> [x \in DOMAIN d \ {id} |-> d[x]]]
    ELSE [resp |-> HttpResp(409, EmptyDoc), db |-> d]

(* POST /db/_bulk_docs: the documents are taken one by one; one that       *)
(* conflicts is reported in its entry and the others are still stored.     *)
RECURSIVE StoreBulk(_, _, _, _)
StoreBulk(d, docs, i, rev) ==
    IF i > Len(docs) THEN [results |-> <<>>, db |-> d, rev |-> rev]
    ELSE LET body == docs[i]
             id == IF Has(body, "_id") THEN body["_id"].id ELSE FreshId(d)
             ok == IF id \in DOMAIN d
                   THEN Has(body, "_rev") /\ body["_rev"] = d[id]["_rev"]
                   ELSE ~Has(body, "_rev")
             rest == StoreBulk(IF ok THEN Stored(d, id, body, rev) ELSE d, docs, i + 1,
                               IF ok THEN rev + 1 ELSE rev)
         IN [results |-> <<IF ok THEN WriteOk(id, rev)
                           ELSE [id |-> I(id), error |-> S("conflict")]>> \o rest.results,
             db |-> rest.db, rev |-> rest.rev]

(* POST /db/_find: the documents matching the selector, in identifier      *)
(* order, after `skip` of them and at most `limit`, cut down to `fields`   *)
(* when fields are asked for.                                              *)
IsRange(c) == DOMAIN c = {"gte", "lte"}
(* Mango compares timestamps as strings. A UTC stamp ends in "+00:00", a   *)
(* naive one (Naive, the reading of a local clock) does not: where the     *)
(* clock readings are equal the naive string is a proper prefix of the     *)
(* UTC one and sorts before it.                                            *)
Naive(wall) == [wall |-> wall]
IsNaive(v) == DOMAIN v = {"wall"}
Clock(v) == IF IsNaive(v) THEN v.wall ELSE v.time
IsoLeq(a, b) ==
    IF ~IsNaive(a) /\ IsNaive(b) THEN Clock(a) < Clock(b) ELSE Clock(a) <= Clock(b)
Between(v, c) ==
    DOMAIN v = {"time"} /\ IsoLeq(c.gte, v) /\ IsoLeq(v, c.lte)
Matches(doc, selector) ==
    \A k \in DOMAIN selector :
        /\ Has(doc, k)
        /\ IF IsRange(selector[k]) THEN Between(doc[k], selector[k])
           ELSE doc[k] = selector[k]
SortedIds(ids) ==
    LET top == IF ids = {} THEN 0 ELSE CHOOSE i \in ids : \A j \in ids : j <= i
    IN SelectSeq([k \in 1..top |-> k], LAMBDA k : k \in ids)
Matching(d, selector) ==
    LET ids == SortedIds(DOMAIN d)
        all == [k \in 1..Len(ids) |-> d[ids[k]]]
    IN SelectSeq(all, LAMBDA doc : Matches(doc, selector))
Page(seq, limit, skip) ==
    SubSeq(seq, skip + 1, IF skip + limit < Len(seq) THEN skip + limit ELSE Len(seq))
StoreFind(d, query) ==
    LET all == Matching(d, query.selector)
        page == Page(all, query.limit, query.skip)
    IN HttpResp(200,
         [docs |-> [i \in 1..Len(page) |->
                      IF query.fields = {} THEN page[i] ELSE Project(page[i], query.fields)]])

----------------------------------------------------------------------------
(* CouchDBClient (src/src/database.py).  Each method is a function of the  *)
(* responses it receives; a method that issues two requests is split at    *)
(* the second request.                                                     *)

(* no handler: what the body raises leaves the method *)
TryRethrows(outcome, message) == outcome
(* `except Exception as e: return {"success": False, "error": str(e)}` *)
Try(outcome, message) ==
    IF outcome.raised
    THEN Returned(FALSE, outcome.error, message, EmptyDoc)
    ELSE outcome

(* response.json(), then result.get('id') / result.get('rev') *)
IdRev(body) == [id |-> Get(body, "id", None), rev |-> Get(body, "rev", None)]

(* a stamping that overwrites a created_at the caller supplied *)
CreateStampAlways(document, t) ==
    Put(Put(document, "created_at", T(t)), "updated_at", T(t))
(* create: the timestamps put on the caller's document before the POST *)
CreateStamp(document, t) ==
    LET d1 == IF ~Has(document, "created_at")
              THEN Put(document, "created_at", T(t)) ELSE document
    IN Put(d1, "updated_at", T(t))

(* create: the result built from the POST's response *)
Create(resp) ==
    Try(IF resp.exc # "" THEN Raised(resp.exc)
        ELSE IF resp.status = 201
        THEN Returned(TRUE, NoErr, "Document created successfully", IdRev(resp.body))
        ELSE Returned(FALSE, ErrHttp(resp.status), "Failed to create document", EmptyDoc),
        "Exception occurred during document creation")

(* read: the result built from the GET's response *)
ErrNotFound == ErrText("Document not found")
(* a read answering "not found" to every status but 200 *)
ReadAllNotFound(resp) ==
    IF resp.exc # "" THEN Raised(resp.exc)
    ELSE IF resp.status = 200
    THEN Returned(TRUE, NoErr, "Document retrieved successfully", [document |-> resp.body])
    ELSE Returned(FALSE, ErrNotFound, "Document does not exist", EmptyDoc)
ReadBranches(resp) ==
    IF resp.exc # "" THEN Raised(resp.exc)
    ELSE IF resp.status = 200
    THEN Returned(TRUE, NoErr, "Document retrieved successfully", [document |-> resp.body])
    ELSE IF resp.status = 404
    THEN Returned(FALSE, ErrNotFound, "Document does not exist", EmptyDoc)
    ELSE Returned(FALSE, ErrHttp(resp.status), "Failed to retrieve document", EmptyDoc)
Read(resp) ==
    Try(ReadBranches(resp), "Exception occurred during document retrieval")

(* a merge that descends into nested objects *)
DeepMergeDoc(current_doc, updates) ==
    [k \in DOMAIN current_doc \cup DOMAIN updates |->
        IF k \notin DOMAIN updates THEN current_doc[k]
        ELSE IF k \in DOMAIN current_doc /\ "obj" \in DOMAIN current_doc[k]
                /\ "obj" \in DOMAIN updates[k]
        THEN O(DictUpdate(current_doc[k].obj, updates[k].obj))
        ELSE updates[k]]
(* update, merge branch: current_doc.copy(); updated_doc.update(updates) *)
MergeDoc(current_doc, updates) ==
    DictUpdate(current_doc, updates)

(* update, replace branch: updates.copy() with the read _id and _rev;      *)
(* only called when current_doc has both keys                              *)
ReplaceDoc(current_doc, updates) ==
    Put(Put(updates, "_id", current_doc["_id"]), "_rev", current_doc["_rev"])

(* update: the timestamp set on the document about to be sent *)
UpdateStamp(updated_doc, t) ==
    Put(updated_doc, "updated_at", T(t))

(* update, from its read to its PUT: either it returns (ret) the outcome   *)
(* `out`, or it goes on to send `doc`.                                      *)
UpdateBuild(current_result, updates, merge, t) ==
    IF ~current_result.success
    THEN [ret |-> TRUE, out |-> current_result, doc |-> EmptyDoc]
    ELSE LET current_doc == current_result.payload.document IN
         IF merge
         THEN [ret |-> FALSE, out |-> NoResult,
               doc |-> UpdateStamp(MergeDoc(current_doc, updates), t)]
         ELSE IF ~Has(current_doc, "_id") \/ ~Has(current_doc, "_rev")
         THEN [ret |-> TRUE,
               out |-> Try(Raised("KeyError"), "Exception occurred during document update"),
               doc |-> EmptyDoc]
         ELSE [ret |-> FALSE, out |-> NoResult,
               doc |-> UpdateStamp(ReplaceDoc(current_doc, updates), t)]

(* an update taking every response for a success *)
UpdateAnyStatus(resp) ==
    Try(IF resp.exc # "" THEN Raised(resp.exc)
        ELSE Returned(TRUE, NoErr, "Document updated successfully", IdRev(resp.body)),
        "Exception occurred during document update")
(* update: the result built from the PUT's response *)
Update(resp) ==
    Try(IF resp.exc # "" THEN Raised(resp.exc)
        ELSE IF resp.status = 201
        THEN Returned(TRUE, NoErr, "Document updated successfully", IdRev(resp.body))
        ELSE Returned(FALSE, ErrHttp(resp.status), "Failed to update document", EmptyDoc),
        "Exception occurred during document update")

(* a patch that leaves the flag unset *)
SoftDeleteUnflagged(t) == [deleted |-> B(FALSE), deleted_at |-> T(t)]
(* delete, soft branch: the patch handed to update() *)
SoftDeletePatch(t) == [deleted |-> B(TRUE), deleted_at |-> T(t)]

(* delete, from its read to its next request: it returns `out`, or goes    *)
(* on to update() (soft) or to a DELETE with the revision read (hard).     *)
DeleteBuild(current_result, soft_delete) ==
    IF ~current_result.success
    THEN [ret |-> TRUE, out |-> current_result, rev |-> None]
    ELSE LET current_doc == current_result.payload.document IN
         IF soft_delete
         THEN [ret |-> FALSE, out |-> NoResult, rev |-> None]
         ELSE IF ~Has(current_doc, "_rev")
         THEN [ret |-> TRUE,
               out |-> Try(Raised("KeyError"), "Exception occurred during document deletion"),
               rev |-> None]
         ELSE [ret |-> FALSE, out |-> NoResult, rev |-> current_doc["_rev"]]

(* a delete taking every response for a success *)
DeleteAnyStatus(resp) ==
    Try(IF resp.exc # "" THEN Raised(resp.exc)
        ELSE Returned(TRUE, NoErr, "Document deleted successfully", IdRev(resp.body)),
        "Exception occurred during document deletion")
(* delete, hard branch: the result built from the DELETE's response *)
Delete(resp) ==
    Try(IF resp.exc # "" THEN Raised(resp.exc)
        ELSE IF resp.status = 200
        THEN Returned(TRUE, NoErr, "Document deleted successfully", IdRev(resp.body))
        ELSE Returned(FALSE, ErrHttp(resp.status), "Failed to delete document", EmptyDoc),
        "Exception occurred during document deletion")

(* find: the query sent, with the default limit and skip *)
FindDefaultLimit == 100
FindQuery(selector, limit, skip, fields) ==
    [selector |-> selector, limit |-> limit, skip |-> skip, fields |-> fields]

(* bulk_create: the timestamps put on every document before the POST *)
BulkStamp(documents, t) ==
    [i \in 1..Len(documents) |-> CreateStamp(documents[i], t)]

(* a bulk_create counting every entry of the response as stored *)
BulkCreateCountsAll(resp, documents) ==
    Try(IF resp.exc # "" THEN Raised(resp.exc)
        ELSE IF resp.status = 201
        THEN Returned(TRUE, NoErr, "Bulk operation completed",
                [results |-> resp.body.list,
                 total |-> N(Len(documents)),
                 success_count |-> N(Len(resp.body.list)),
                 error_count |-> N(Len(documents) - Len(resp.body.list))])
        ELSE Returned(FALSE, ErrHttp(resp.status), "Failed to execute bulk create operation",
                      EmptyDoc),
        "Exception occurred during bulk create operation")
(* bulk_create: the result built from the POST's response, a JSON array    *)
(* with one entry per document                                             *)
BulkCreate(resp, documents) ==
    Try(IF resp.exc # "" THEN Raised(resp.exc)
        ELSE IF resp.status = 201
        THEN IF ~IsList(resp.body) THEN Raised("TypeError")
             ELSE LET results == resp.body.list
                      success_count ==
                          Cardinality({i \in 1..Len(results) :
                              Has(results[i], "ok") /\ Truthy(results[i]["ok"])})
                  IN Returned(TRUE, NoErr, "Bulk operation completed",
                        [results |-> results,
                         total |-> N(Len(documents)),
                         success_count |-> N(success_count),
                         error_count |-> N(Len(documents) - success_count)])
        ELSE Returned(FALSE, ErrHttp(resp.status), "Failed to execute bulk create operation",
                      EmptyDoc),
        "Exception occurred during bulk create operation")

(* the selectors the callers use *)
OrderSelector == [type |-> S("order")]
CustomerSelector == [type |-> S("customer")]
ProductSelector == [type |-> S("product")]

(* find: the result built from the POST's response *)
Find(resp) ==
    Try(IF resp.exc # "" THEN Raised(resp.exc)
        ELSE IF resp.status = 200
        THEN LET docs == Get(resp.body, "docs", <<>>) IN
             Returned(TRUE, NoErr, "Documents found successfully",
                      [documents |-> docs, total_found |-> N(Len(docs))])
        ELSE Returned(FALSE, ErrHttp(resp.status), "Failed to execute find query", EmptyDoc),
        "Exception occurred during find operation")

----------------------------------------------------------------------------
(* AnalyticsEngine (src/src/analytics.py), ad-hoc in-memory reductions.    *)
(* Each method is a function of the find() results it receives.  Money is  *)
(* counted in cents, so round(x, 2) rounds to a whole number of cents.     *)

(* sum(...) / `+=` over values: a non-number makes Python raise TypeError *)
(* The additions are grouped by halves; the sum and the cases that raise   *)
(* are those of the left-to-right loop.                                    *)
RECURSIVE SumRange(_, _, _)
SumRange(vals, lo, hi) ==
    IF lo > hi THEN [raised |-> FALSE, val |-> 0]
    ELSE IF lo = hi
    THEN IF IsNum(vals[lo]) THEN [raised |-> FALSE, val |-> vals[lo].num]
         ELSE [raised |-> TRUE, val |-> 0]
    ELSE LET mid == (lo + hi) \div 2
             left == SumRange(vals, lo, mid)
             right == SumRange(vals, mid + 1, hi)
         IN [raised |-> left.raised \/ right.raised, val |-> left.val + right.val]
SumFrom(vals, i, acc) ==
    LET rest == SumRange(vals, i, Len(vals))
    IN [raised |-> rest.raised, val |-> IF rest.raised THEN 0 ELSE acc + rest.val]

(* a rounding that always goes up *)
CeilDiv(a, n) == (a + n - 1) \div n
(* round(a / n, 2) on cents: the nearest whole, a tie going to the even one *)
RoundDiv(a, n) ==
    LET q == a \div n
        r == a % n
    IN IF 2 * r < n THEN q
       ELSE IF 2 * r > n THEN q + 1
       ELSE IF q % 2 = 0 THEN q ELSE q + 1

(* a dict counting the occurrences of each value of vals *)
Histogram(vals) ==
    [v \in {vals[i] : i \in 1..Len(vals)} |->
        Cardinality({i \in 1..Len(vals) : vals[i] = v})]

(* get_sales_summary *)
SalesSummaryQuery ==
    FindQuery(OrderSelector, FindDefaultLimit, 0, {"total", "status", "created_at", "products"})
GetSalesSummary(found) ==
    IF found.raised \/ ~found.success THEN found
    ELSE LET orders == found.payload.documents
             total_orders == Len(orders)
             revenue == SumFrom([i \in 1..Len(orders) |-> Get(orders[i], "total", N(0))], 1, 0)
             statuses == [i \in 1..Len(orders) |-> Get(orders[i], "status", S("unknown"))]
         IN IF revenue.raised THEN Raised("TypeError")
            ELSE Returned(TRUE, NoErr, "Sales summary calculated successfully",
                    [total_orders |-> N(total_orders),
                     total_revenue |-> N(revenue.val),
                     average_order_value |->
                         N(IF total_orders > 0 THEN RoundDiv(revenue.val, total_orders) ELSE 0),
                     orders_by_status |-> Histogram(statuses)])

(* get_top_products: all line items of all orders, in iteration order;     *)
(* iterating a `products` value that is not a list of dicts raises         *)
RECURSIVE ItemsRange(_, _, _)
ItemsRange(orders, lo, hi) ==
    IF lo > hi THEN [raised |-> FALSE, items |-> <<>>]
    ELSE IF lo = hi
    THEN LET products == Get(orders[lo], "products", L(<<>>))
         IN IF IsList(products) THEN [raised |-> FALSE, items |-> products.list]
            ELSE [raised |-> TRUE, items |-> <<>>]
    ELSE LET mid == (lo + hi) \div 2
             left == ItemsRange(orders, lo, mid)
             right == ItemsRange(orders, mid + 1, hi)
         IN [raised |-> left.raised \/ right.raised, items |-> left.items \o right.items]
LineItems(orders, i) ==
    ItemsRange(orders, i, Len(orders))

(* get_top_products: product_counts, a dict in insertion order, as the     *)
(* sequence of its entries                                                 *)
Position(counts, pid) ==
    IF \E k \in 1..Len(counts) : counts[k].key = pid
    THEN CHOOSE k \in 1..Len(counts) : counts[k].key = pid
    ELSE 0
ProductIdOf(product) == Get(product, "product_id", S("unknown"))
FirstSeen(items) ==
    SelectSeq([k \in 1..Len(items) |-> k],
              LAMBDA k : \A j \in 1..(k - 1) : ProductIdOf(items[j]) # ProductIdOf(items[k]))
ProductCounts(items) ==
    LET firsts == FirstSeen(items)
        quantities == [k \in 1..Len(items) |-> Get(items[k], "quantity", N(1))]
        entry(f) ==
            LET mine == SelectSeq(items, LAMBDA product : ProductIdOf(product) = ProductIdOf(items[f]))
                total == SumFrom([k \in 1..Len(mine) |-> Get(mine[k], "quantity", N(1))], 1, 0)
            IN [key |-> ProductIdOf(items[f]),
                name |-> Get(items[f], "product_name", S("Unknown Product")),
                total_quantity |-> total.val,
                order_count |-> Len(mine)]
    IN IF \E k \in 1..Len(items) : ~IsNum(quantities[k])
       THEN [raised |-> TRUE, counts |-> <<>>]
       ELSE [raised |-> FALSE, counts |-> [k \in 1..Len(firsts) |-> entry(firsts[k])]]

(* sorted(..., key=total_quantity, reverse=True): a stable sort *)
RECURSIVE InsertDesc(_, _)
InsertDesc(sorted, e) ==
    IF sorted = <<>> THEN <<e>>
    ELSE IF Head(sorted).total_quantity >= e.total_quantity
         THEN <<Head(sorted)>> \o InsertDesc(Tail(sorted), e)
         ELSE <<e>> \o sorted
RECURSIVE SortDesc(_, _, _)
SortDesc(counts, i, sorted) ==
    IF i > Len(counts) THEN sorted
    ELSE SortDesc(counts, i + 1, InsertDesc(sorted, counts[i]))
Truncate(seq, limit) ==
    SubSeq(seq, 1, IF limit < Len(seq) THEN limit ELSE Len(seq))

TopProductsQuery == FindQuery(OrderSelector, FindDefaultLimit, 0, {"products"})
GetTopProducts(found, limit) ==
    IF found.raised \/ ~found.success THEN found
    ELSE LET items == LineItems(found.payload.documents, 1)
             counted == IF items.raised THEN [raised |-> TRUE, counts |-> <<>>]
                        ELSE ProductCounts(items.items)
         IN IF counted.raised THEN Raised("TypeError")
            ELSE Returned(TRUE, NoErr, "Top products retrieved",
                    [data |-> Truncate(SortDesc(counted.counts, 1, <<>>), limit)])

(* get_customer_analytics: customer_metrics, a dict in insertion order *)
RECURSIVE CustomerMetrics(_, _, _)
CustomerMetrics(customers, i, metrics) ==
    IF i > Len(customers) THEN metrics
    ELSE LET entry == [key |-> Get(customers[i], "_id", None),
                       name |-> Get(customers[i], "name", S("Unknown")),
                       email |-> Get(customers[i], "email", S("")),
                       total_orders |-> 0, total_spent |-> 0, last_order_date |-> None]
             k == Position(metrics, entry.key)
         IN CustomerMetrics(customers, i + 1,
                IF k = 0 THEN Append(metrics, entry) ELSE [metrics EXCEPT ![k] = entry])

(* get_customer_analytics: the loop over the orders, customer by customer: *)
(* the orders of the customer at entry k, in order                         *)
OrdersOf(orders, key) ==
    SelectSeq(orders, LAMBDA o : Get(o, "customer_id", None) = key)
LastOrderDate(mine) ==
    LET dated == SelectSeq(mine, LAMBDA o : Has(o, "created_at"))
    IN IF dated = <<>> THEN None
       ELSE LET k == CHOOSE k \in 1..Len(dated) :
                        \A j \in 1..Len(dated) : dated[j]["created_at"].time <= dated[k]["created_at"].time
            IN dated[k]["created_at"]
AggregateOrders(orders, i, metrics) ==
    LET spent == [k \in 1..Len(metrics) |->
                    LET mine == OrdersOf(orders, metrics[k].key)
                    IN SumFrom([j \in 1..Len(mine) |-> Get(mine[j], "total", N(0))], 1, 0)]
    IN IF \E k \in 1..Len(metrics) : spent[k].raised
       THEN [raised |-> TRUE, metrics |-> <<>>]
       ELSE [raised |-> FALSE,
             metrics |-> [k \in 1..Len(metrics) |->
                LET mine == OrdersOf(orders, metrics[k].key)
                IN [metrics[k] EXCEPT !.total_orders = Len(mine),
                                      !.total_spent = spent[k].val,
                                      !.last_order_date = LastOrderDate(mine)]]]

RECURSIVE SumOrders(_, _)
SumOrders(metrics, i) ==
    IF i > Len(metrics) THEN 0 ELSE metrics[i].total_orders + SumOrders(metrics, i + 1)

(* get_customer_analytics, once both queries have answered; the average    *)
(* number of orders is kept in hundredths                                  *)
GetCustomerAnalytics(customers_result, orders_result) ==
    LET customers == customers_result.payload.documents
        orders == orders_result.payload.documents
        aggregated == AggregateOrders(orders, 1, CustomerMetrics(customers, 1, <<>>))
        metrics == aggregated.metrics
        total_customers == Len(customers)
    IN IF aggregated.raised THEN Raised("TypeError")
       ELSE Returned(TRUE, NoErr, "Customer analytics calculated successfully",
               [total_customers |-> N(total_customers),
                active_customers |->
                    N(Cardinality({k \in 1..Len(metrics) : metrics[k].total_orders > 0})),
                average_orders_per_customer |->
                    N(IF total_customers > 0
                      THEN RoundDiv(100 * SumOrders(metrics, 1), total_customers) ELSE 0),
                customer_details |-> metrics])

(* [p.get("price", 0) for p in products if p.get("price")] *)
TruthyPrices(products, i) ==
    LET priced == SelectSeq(SubSeq(products, i, Len(products)),
                            LAMBDA p : Has(p, "price") /\ Truthy(p["price"]))
    IN [k \in 1..Len(priced) |-> priced[k]["price"]]

(* get_product_performance *)
GetProductPerformance(found) ==
    IF found.raised \/ ~found.success THEN found
    ELSE LET products == found.payload.documents
             categories == [i \in 1..Len(products) |-> Get(products[i], "category", S("Unknown"))]
             prices == TruthyPrices(products, 1)
             total == SumFrom(prices, 1, 0)
             nums == {prices[i].num : i \in 1..Len(prices)}
         IN IF prices # <<>> /\ total.raised THEN Raised("TypeError")
            ELSE Returned(TRUE, NoErr, "Product performance metrics calculated",
                    [total_products |-> N(Len(products)),
                     categories |-> Histogram(categories),
                     min_price |-> N(IF prices = <<>> THEN 0
                                     ELSE CHOOSE x \in nums : \A y \in nums : x <= y),
                     max_price |-> N(IF prices = <<>> THEN 0
                                     ELSE CHOOSE x \in nums : \A y \in nums : y <= x),
                     average_price |-> N(IF prices = <<>> THEN 0
                                         ELSE RoundDiv(total.val, Len(prices)))])

(* get_recent_activity: the two date-window queries *)
Range(lo, hi) == [gte |-> lo, lte |-> hi]
RecentOrdersQuery(t, days) ==
    FindQuery([type |-> S("order"), created_at |-> Range(Naive(t - days), Naive(t))],
              FindDefaultLimit, 0, {})
RecentEventsQuery(t, days) ==
    FindQuery([type |-> S("analytics_event"), timestamp |-> Range(Naive(t - days), Naive(t))],
              FindDefaultLimit, 0, {})

(* get_recent_activity, once both queries have answered *)
EventsShown == 20
(* a recent activity returning a failure of the events query *)
RecentActivityStrict(orders_result, events_result, days) ==
    IF ~events_result.success THEN events_result
    ELSE Returned(TRUE, NoErr, "Recent activity retrieved",
            [period_days |-> N(days),
             total_orders |-> N(Len(orders_result.payload.documents)),
             total_events |-> N(Len(events_result.payload.documents)),
             orders |-> orders_result.payload.documents,
             events |-> Truncate(events_result.payload.documents, EventsShown)])
GetRecentActivity(orders_result, events_result, days) ==
    LET recent_orders == orders_result.payload.documents
        recent_events == IF events_result.success THEN events_result.payload.documents
                         ELSE <<>>
    IN Returned(TRUE, NoErr, "Recent activity retrieved",
          [period_days |-> N(days),
           total_orders |-> N(Len(recent_orders)),
           total_events |-> N(Len(recent_events)),
           orders |-> recent_orders,
           events |-> Truncate(recent_events, EventsShown)])

----------------------------------------------------------------------------
(* Callers of the gateway and the inputs they pass                         *)

Procs == {"a", "b"}

(* An order as OrderSchema.create_order builds it and create() stored it *)
FactoryOrder(id, total) ==
    [_id |-> I(id), type |-> S("order"), total |-> N(total), status |-> S("pending"),
     shipping_address |-> O([city |-> S("x")]),
     created_at |-> T(0), updated_at |-> T(0), version |-> N(1)]
PlainOrder ==
    [type |-> S("order"), total |-> N(20), status |-> S("pending")]
CreateDocs == {PlainOrder, Del(FactoryOrder(1, 20), "shipping_address")}

Patches ==
    { [total |-> N(30), shipping_address |-> O([zip |-> S("z")])],
      [status |-> S("shipped"), updated_at |-> T(0), version |-> N(2)] }

NoCall ==
    [op |-> "none", id |-> 0, updates |-> EmptyDoc, merge |-> TRUE,
     soft |-> FALSE, document |-> EmptyDoc]
NoPending ==
    [sent |-> FALSE, at |-> 0, status |-> 0, current_doc |-> EmptyDoc, doc |-> EmptyDoc,
     rev |-> None, before |-> EmptyDoc, after |-> EmptyDoc, stored |-> 0]
NoAgg == [name |-> "none", arg |-> 0, queries |-> <<>>, out |-> NoResult]

Init ==
    /\ \/ db = [i \in {} |-> EmptyDoc] /\ nextRev = 1
       \/ db = [i \in {1} |-> Put(FactoryOrder(1, 10), "_rev", R(1))] /\ nextRev = 2
    /\ now = 1
    /\ pc = [p \in Procs |-> "idle"]
    /\ call = [p \in Procs |-> NoCall]
    /\ pending = [p \in Procs |-> NoPending]
    /\ result = [p \in Procs |-> NoResult]
    /\ agg = NoAgg

(* The response to a request that the store answers unless a fault hits *)
Answer(fault, st) ==
    IF fault = "none" THEN st ELSE [resp |-> FaultResp(fault), db |-> db]
Garbled(doc) == Del(Del(doc, "_id"), "_rev")
GetResp(id, fault) ==
    IF fault = "none" THEN StoreGet(db, id)
    ELSE IF fault = "garbled"
    THEN IF id \in DOMAIN db THEN HttpResp(200, Garbled(db[id])) ELSE StoreGet(db, id)
    ELSE FaultResp(fault)
Commit(st) ==
    /\ db' = st.db
    /\ nextRev' = IF st.db # db THEN nextRev + 1 ELSE nextRev

(* A caller enters a gateway method; the clock has advanced since the     *)
(* previous call.                                                          *)
StartCall(p) ==
    /\ pc[p] = "idle"
    /\ now < MaxTime
    /\ now' = now + 1

(* create(document) *)
DoCreate(p, document, fault) ==
    /\ StartCall(p)
    /\ fault = "none" /\ ~Has(document, "_id") => DOMAIN db # DocIds
    /\ LET sent == CreateStamp(document, now)
           st == Answer(fault, StorePost(db, sent, nextRev))
       IN /\ Commit(st)
          /\ result' = [result EXCEPT ![p] = Create(st.resp)]
          /\ call' = [call EXCEPT ![p] = [NoCall EXCEPT !.op = "create", !.document = document]]
          /\ pending' = [pending EXCEPT ![p] = [NoPending EXCEPT !.sent = TRUE, !.at = now, !.doc = sent]]
    /\ UNCHANGED <<pc, agg>>

(* read(doc_id) *)
DoRead(p, id, fault) ==
    /\ StartCall(p)
    /\ LET resp == GetResp(id, fault)
           r == Read(resp)
       IN /\ result' = [result EXCEPT ![p] = r]
          /\ call' = [call EXCEPT ![p] = [NoCall EXCEPT !.op = "read", !.id = id]]
          /\ pending' = [pending EXCEPT ![p] = [NoPending EXCEPT !.status = resp.status, !.current_doc = resp.body]]
    /\ UNCHANGED <<db, nextRev, pc, agg>>

(* update(): the read and everything up to the PUT *)
UpdateReadStep(p, c, fault) ==
    LET resp == GetResp(c.id, fault)
        r == Read(resp)
        b == UpdateBuild(r, c.updates, c.merge, now)
    IN /\ call' = [call EXCEPT ![p] = c]
       /\ IF b.ret
          THEN /\ pc' = [pc EXCEPT ![p] = "idle"]
               /\ result' = [result EXCEPT ![p] = b.out]
               /\ pending' = [pending EXCEPT ![p] = NoPending]
          ELSE /\ pc' = [pc EXCEPT ![p] = "update_put"]
               /\ result' = [result EXCEPT ![p] = NoResult]
               /\ pending' = [pending EXCEPT ![p] =
                     [NoPending EXCEPT !.at = now, !.current_doc = r.payload.document,
                                      !.doc = b.doc]]
       /\ UNCHANGED <<db, nextRev, agg>>

(* update(doc_id, updates, merge) and replace(doc_id, new_document) *)
DoUpdate(p, id, updates, merge, fault) ==
    /\ StartCall(p)
    /\ UpdateReadStep(p, [NoCall EXCEPT !.op = "update", !.id = id,
                                        !.updates = updates, !.merge = merge], fault)

(* update(): the PUT and the result *)
UpdatePut(p, fault) ==
    /\ pc[p] = "update_put"
    /\ LET id == call[p].id
           st == Answer(fault, StorePut(db, id, pending[p].doc, nextRev))
           r == Update(st.resp)
       IN /\ Commit(st)
          /\ result' = [result EXCEPT ![p] = r]
          /\ pending' = [pending EXCEPT ![p] =
                [@ EXCEPT !.sent = TRUE,
                          !.before = IF id \in DOMAIN db THEN db[id] ELSE EmptyDoc,
                          !.after = IF id \in DOMAIN st.db THEN st.db[id] ELSE EmptyDoc]]
    /\ pc' = [pc EXCEPT ![p] = "idle"]
    /\ UNCHANGED <<now, call, agg>>

(* delete(doc_id, soft_delete): the read and everything up to the next call *)
DoDelete(p, id, soft, fault) ==
    /\ StartCall(p)
    /\ LET resp == GetResp(id, fault)
           r == Read(resp)
           b == DeleteBuild(r, soft)
           c == [NoCall EXCEPT !.op = "delete", !.id = id, !.soft = soft]
       IN /\ IF b.ret
             THEN /\ pc' = [pc EXCEPT ![p] = "idle"]
                  /\ result' = [result EXCEPT ![p] = b.out]
                  /\ call' = [call EXCEPT ![p] = c]
                  /\ pending' = [pending EXCEPT ![p] = [NoPending EXCEPT !.status = resp.status]]
             ELSE IF soft
             THEN /\ pc' = [pc EXCEPT ![p] = "soft_update"]
                  /\ result' = [result EXCEPT ![p] = NoResult]
                  /\ call' = [call EXCEPT ![p] = [c EXCEPT !.updates = SoftDeletePatch(now)]]
                  /\ pending' = [pending EXCEPT ![p] = NoPending]
             ELSE /\ pc' = [pc EXCEPT ![p] = "delete_del"]
                  /\ result' = [result EXCEPT ![p] = NoResult]
                  /\ call' = [call EXCEPT ![p] = c]
                  /\ pending' = [pending EXCEPT ![p] =
                        [NoPending EXCEPT !.status = resp.status, !.rev = b.rev]]
    /\ UNCHANGED <<db, nextRev, agg>>

(* delete(soft_delete=True): the update() it calls, up to the PUT *)
SoftUpdateRead(p, fault) ==
    /\ pc[p] = "soft_update"
    /\ UpdateReadStep(p, call[p], fault)
    /\ UNCHANGED now

(* delete(soft_delete=False): the DELETE and the result *)
DeleteDel(p, fault) ==
    /\ pc[p] = "delete_del"
    /\ LET id == call[p].id
           st == Answer(fault, StoreDelete(db, id, pending[p].rev))
       IN /\ db' = st.db
          /\ result' = [result EXCEPT ![p] = Delete(st.resp)]
          /\ pending' = [pending EXCEPT ![p] =
                [@ EXCEPT !.sent = TRUE,
                          !.before = IF id \in DOMAIN db THEN db[id] ELSE EmptyDoc,
                          !.after = IF id \in DOMAIN st.db THEN st.db[id] ELSE EmptyDoc]]
    /\ pc' = [pc EXCEPT ![p] = "idle"]
    /\ UNCHANGED <<nextRev, now, call, agg>>

(* bulk_create(documents) *)
BulkLists == {<<PlainOrder>>, <<Del(FactoryOrder(1, 20), "shipping_address"), PlainOrder>>}
NewIds(documents) ==
    Cardinality({i \in 1..Len(documents) : ~Has(documents[i], "_id")})
        + Cardinality({documents[i]["_id"].id : i \in {j \in 1..Len(documents) : Has(documents[j], "_id")}}
                          \ DOMAIN db)
BulkCreateStep(p, documents, fault) ==
    LET sent == BulkStamp(documents, now)
        bulk == StoreBulk(db, sent, 1, nextRev)
        st == Answer(fault, [resp |-> HttpResp(201, L(bulk.results)), db |-> bulk.db])
    IN /\ db' = st.db
       /\ nextRev' = IF fault = "none" THEN bulk.rev ELSE nextRev
       /\ result' = [result EXCEPT ![p] = BulkCreate(st.resp, sent)]
       /\ call' = [call EXCEPT ![p] =
             [NoCall EXCEPT !.op = "bulk_create", !.document = L(documents)]]
       /\ pending' = [pending EXCEPT ![p] =
             [NoPending EXCEPT !.sent = TRUE, !.at = now, !.status = st.resp.status,
                              !.stored = Cardinality(DOMAIN st.db \ DOMAIN db)]]
DoBulkCreate(p, documents, fault) ==
    /\ StartCall(p)
    /\ fault = "none" => NewIds(documents) <= Cardinality(DocIds \ DOMAIN db)
    /\ BulkCreateStep(p, documents, fault)
    /\ UNCHANGED <<pc, agg>>

(* find(selector) with the default limit, skip and fields *)
DoFind(p, fault) ==
    /\ StartCall(p)
    /\ LET q == FindQuery(OrderSelector, FindDefaultLimit, 0, {})
           st == Answer(fault, [resp |-> StoreFind(db, q), db |-> db])
       IN /\ result' = [result EXCEPT ![p] = Find(st.resp)]
          /\ call' = [call EXCEPT ![p] = [NoCall EXCEPT !.op = "find"]]
          /\ pending' = [pending EXCEPT ![p] = NoPending]
    /\ UNCHANGED <<db, nextRev, pc, agg>>

Next ==
    \/ \E p \in Procs, document \in CreateDocs, fault \in Faults : DoCreate(p, document, fault)
    \/ \E p \in Procs, id \in DocIds, fault \in ReadFaults : DoRead(p, id, fault)
    \/ \E p \in Procs, id \in DocIds, updates \in Patches, merge \in BOOLEAN, fault \in GetFaults :
          DoUpdate(p, id, updates, merge, fault)
    \/ \E p \in Procs, fault \in Faults : UpdatePut(p, fault)
    \/ \E p \in Procs, id \in DocIds, soft \in BOOLEAN, fault \in GetFaults :
          DoDelete(p, id, soft, fault)
    \/ \E p \in Procs, fault \in GetFaults : SoftUpdateRead(p, fault)
    \/ \E p \in Procs, fault \in Faults : DeleteDel(p, fault)
    \/ \E p \in Procs, fault \in FindFaults : DoFind(p, fault)
    \/ \E p \in Procs, documents \in BulkLists, fault \in Faults :
          DoBulkCreate(p, documents, fault)

Spec == Init /\ [][Next]_vars

----------------------------------------------------------------------------
(* The aggregation engine at work: the queries each method issues, in      *)
(* order, and what it returns.  A query that is never issued is not in     *)
(* `queries`.                                                              *)

FindOn(d, query, fault) ==
    Find(IF fault = "none" THEN StoreFind(d, query) ELSE FaultResp(fault))
Brief(r) == [r EXCEPT !.payload = EmptyDoc]

SalesSummaryRun(d, fault) ==
    LET r == FindOn(d, SalesSummaryQuery, fault)
    IN [queries |-> <<Brief(r)>>, out |-> GetSalesSummary(r)]

TopProductsRun(d, fault, limit) ==
    LET r == FindOn(d, TopProductsQuery, fault)
    IN [queries |-> <<Brief(r)>>, out |-> GetTopProducts(r, limit)]

CustomerAnalyticsRun(d, fault1, fault2) ==
    LET customers_result == FindOn(d, FindQuery(CustomerSelector, FindDefaultLimit, 0, {}), fault1)
        orders_result == FindOn(d, FindQuery(OrderSelector, FindDefaultLimit, 0, {}), fault2)
    IN IF ~customers_result.success
       THEN [queries |-> <<Brief(customers_result)>>, out |-> customers_result]
       ELSE IF ~orders_result.success
       THEN [queries |-> <<Brief(customers_result), Brief(orders_result)>>,
             out |-> orders_result]
       ELSE [queries |-> <<Brief(customers_result), Brief(orders_result)>>,
             out |-> GetCustomerAnalytics(customers_result, orders_result)]

ProductPerformanceRun(d, fault) ==
    LET r == FindOn(d, FindQuery(ProductSelector, FindDefaultLimit, 0, {}), fault)
    IN [queries |-> <<Brief(r)>>, out |-> GetProductPerformance(r)]

RecentActivityRun(d, fault1, fault2, t, days) ==
    LET orders_result == FindOn(d, RecentOrdersQuery(t, days), fault1)
        events_result == FindOn(d, RecentEventsQuery(t, days), fault2)
    IN IF ~orders_result.success
       THEN [queries |-> <<Brief(orders_result)>>, out |-> orders_result]
       ELSE [queries |-> <<Brief(orders_result), Brief(events_result)>>,
             out |-> GetRecentActivity(orders_result, events_result, days)]

(* Stores the aggregations are run against: any subset of a menu of        *)
(* documents (identifiers 1..6), followed by a run of factory-made orders. *)
MaxOver == 1
FillCounts ==
    {0, 1, FindDefaultLimit - 1, FindDefaultLimit}
        \cup {FindDefaultLimit + k : k \in 1..MaxOver}
LineItem(pid, quantity) ==
    [product_id |-> S(pid), product_name |-> S(pid), quantity |-> N(quantity)]
MenuDocs ==
    << [_id |-> I(1), type |-> S("customer"), name |-> S("Ann"), email |-> S("a@x.io")],
       [_id |-> I(2), type |-> S("order"), customer_id |-> I(1), total |-> N(25),
        status |-> S("delivered"), products |-> L(<<LineItem("p1", 2)>>),
        created_at |-> T(0), updated_at |-> T(0), version |-> N(1)],
       \* an order as a tabular import leaves it: every top-level cell a string
       [_id |-> I(3), type |-> S("order"), customer_id |-> I(1), total |-> S("10.0"),
        status |-> S("pending"), products |-> L(<<LineItem("p2", 1)>>),
        created_at |-> T(0), updated_at |-> T(0), version |-> S("1")],
       [_id |-> I(4), type |-> S("product"), category |-> S("Electronics"),
        price |-> N(1000), created_at |-> T(0)],
       [_id |-> I(5), type |-> S("product"), category |-> S("Books"),
        price |-> S("12.5"), created_at |-> T(0)],
       [_id |-> I(6), type |-> S("analytics_event"), event_type |-> S("purchase"),
        timestamp |-> T(0), created_at |-> T(0)] >>
(* the documents a store is filled up with: orders of customer 1 for one   *)
(* unit of a product, products of one category given away for nothing, or *)
(* events                                                                  *)
FillKinds == {"order", "product", "event"}
FillDoc(kind, i) ==
    IF kind = "order"
    THEN [FactoryOrder(i, 10) EXCEPT !.shipping_address = O(EmptyDoc)]
            @@ [customer_id |-> I(1), products |-> L(<<LineItem("p3", 1)>>)]
    ELSE IF kind = "product"
    THEN [_id |-> I(i), type |-> S("product"), category |-> S("Books"),
          price |-> N(0), created_at |-> T(0), updated_at |-> T(0), version |-> N(1)]
    ELSE [_id |-> I(i), type |-> S("analytics_event"), event_type |-> S("view"),
          timestamp |-> T(0), created_at |-> T(0), version |-> N(1)]
AnalyticsStore(menu, kind, fill) ==
    [i \in menu \cup (Len(MenuDocs) + 1 .. Len(MenuDocs) + fill) |->
        Put(IF i <= Len(MenuDocs) THEN MenuDocs[i] ELSE FillDoc(kind, i), "_rev", R(1))]

InitAnalytics ==
    /\ \E menu \in SUBSET (1..Len(MenuDocs)), kind \in FillKinds, fill \in FillCounts :
          db = AnalyticsStore(menu, kind, fill)
    /\ nextRev = 2
    /\ now = 1
    /\ pc = [p \in Procs |-> "idle"]
    /\ call = [p \in Procs |-> NoCall]
    /\ pending = [p \in Procs |-> NoPending]
    /\ result = [p \in Procs |-> NoResult]
    /\ agg = NoAgg

(* The engine keeps nothing between two aggregations: the outcome of a run *)
(* is a function of the store alone, so each store is followed for one run *)
Ran(name, arg, run) ==
    /\ agg = NoAgg
    /\ agg' = [name |-> name, arg |-> arg, queries |-> run.queries, out |-> run.out]
    /\ UNCHANGED <<db, nextRev, now, pc, call, pending, result>>

RunSalesSummary(fault) ==
    Ran("sales_summary", 0, SalesSummaryRun(db, fault))
RunTopProducts(fault, limit) ==
    Ran("top_products", limit, TopProductsRun(db, fault, limit))
RunCustomerAnalytics(fault1, fault2) ==
    Ran("customer_analytics", 0, CustomerAnalyticsRun(db, fault1, fault2))
RunProductPerformance(fault) ==
    Ran("product_performance", 0, ProductPerformanceRun(db, fault))
(* datetime.now() reads the local clock, `offset` away from UTC *)
UtcOffsets == {-1, 0, 1}
RunRecentActivity(fault1, fault2, days, offset) ==
    Ran("recent_activity", days, RecentActivityRun(db, fault1, fault2, now + offset, days))

NextAnalytics ==
    \/ \E fault \in FindFaults : RunSalesSummary(fault)
    \/ \E fault \in FindFaults, limit \in {1, 10} : RunTopProducts(fault, limit)
    \/ \E fault1 \in FindFaults, fault2 \in FindFaults : RunCustomerAnalytics(fault1, fault2)
    \/ \E fault \in FindFaults : RunProductPerformance(fault)
    \/ \E fault1 \in FindFaults, fault2 \in FindFaults, offset \in UtcOffsets :
          RunRecentActivity(fault1, fault2, 7, offset)

SpecAnalytics == InitAnalytics /\ [][NextAnalytics]_vars

----------------------------------------------------------------------------
(* Properties of the Document Gateway, checked under Spec                  *)

Finished(p) == pc[p] = "idle" /\ call[p].op # "none"
IsUpdateCall(p) == call[p].op = "update" \/ (call[p].op = "delete" /\ call[p].soft)
PutSent(p) == Finished(p) /\ IsUpdateCall(p) /\ pending[p].sent
ReadRev(p) == Get(pending[p].current_doc, "_rev", None)
SameRead(p, q) ==
    /\ p # q /\ PutSent(p) /\ PutSent(q)
    /\ call[p].id = call[q].id
    /\ ReadRev(p) # None /\ ReadRev(p) = ReadRev(q)

(* C1: when two callers of update() have read the same revision of the    *)
(* same document, at most one of them returns success; the other returns a *)
(* failure result, raises nothing and leaves the store as it found it, and *)
(* what the store holds after the successful PUT is the document that      *)
(* caller submitted.                                                       *)
C1_OneWriterWins ==
    \A p \in Procs, q \in Procs :
        SameRead(p, q) =>
            /\ ~(result[p].success /\ result[q].success)
            /\ ~result[p].raised /\ ~result[q].raised
            /\ result[p].success =>
                  /\ ~result[q].success
                  /\ pending[q].after = pending[q].before
                  /\ pending[p].after = Put(pending[p].doc, "_rev", result[p].payload.rev)
                  /\ \A id \in DOMAIN db :
                        id = call[p].id /\ db[id]["_rev"] = result[p].payload.rev
                            => db[id] = pending[p].after

C1_Witness ==
    \E p \in Procs, q \in Procs :
        /\ SameRead(p, q)
        /\ result[p].success
        /\ ~result[q].success /\ result[q].error = ErrHttp(409)

(* C2: after every successful update the stored document has a `version`, *)
(* strictly greater than the one it had before.                            *)
C2_VersionIncreases ==
    \A p \in Procs :
        PutSent(p) /\ result[p].success =>
            /\ Has(pending[p].after, "version")
            /\ Has(pending[p].before, "version") =>
                  pending[p].after["version"].num > pending[p].before["version"].num

(* C4: every gateway call that has finished has returned a result dict     *)
(* with a boolean `success`; no exception has left the gateway.            *)
C4_TaggedResults ==
    \A p \in Procs :
        /\ ~result[p].raised
        /\ result[p].success \in BOOLEAN
        /\ Finished(p) => result[p] # NoResult

C4_Witness ==
    \E p \in Procs, q \in Procs :
        /\ Finished(p) /\ call[p].op = "update" /\ ~call[p].merge
        /\ ~result[p].success /\ result[p].error = ErrText("KeyError")
        /\ Finished(q) /\ call[q].op = "bulk_create"
        /\ ~result[q].success /\ result[q].error = ErrText("ConnectionError")

(* The document update() built from what it read *)
Built(p) == IsUpdateCall(p) /\ (pc[p] = "update_put" \/ PutSent(p))

(* C7 as stated: with merge=true the document sent has the patch's value   *)
(* for every key of the patch and the read document's value for every      *)
(* other key but updated_at.                                               *)
C7_PatchValuesSent ==
    \A p \in Procs :
        Built(p) /\ call[p].merge =>
            LET body == pending[p].doc
                current_doc == pending[p].current_doc
                updates == call[p].updates
            IN /\ \A k \in DOMAIN updates : Has(body, k) /\ body[k] = updates[k]
               /\ \A k \in DOMAIN current_doc \ (DOMAIN updates \cup {"updated_at"}) :
                     Has(body, k) /\ body[k] = current_doc[k]

(* C7 amended: the same for every key of the patch but updated_at, which   *)
(* is the time of the update whatever the patch says; the document sent    *)
(* has no other key.                                                       *)
C7_ShallowMerge ==
    \A p \in Procs :
        Built(p) /\ call[p].merge =>
            LET body == pending[p].doc
                current_doc == pending[p].current_doc
                updates == call[p].updates
            IN /\ \A k \in DOMAIN updates \ {"updated_at"} : Has(body, k) /\ body[k] = updates[k]
               /\ \A k \in DOMAIN current_doc \ (DOMAIN updates \cup {"updated_at"}) :
                     Has(body, k) /\ body[k] = current_doc[k]
               /\ Has(body, "updated_at") /\ body["updated_at"] = T(pending[p].at)
               /\ DOMAIN body = DOMAIN current_doc \cup DOMAIN updates \cup {"updated_at"}

C7_Witness ==
    \E p \in Procs :
        /\ PutSent(p) /\ call[p].op = "update" /\ call[p].merge /\ result[p].success
        /\ Has(call[p].updates, "shipping_address")
        /\ Has(pending[p].current_doc, "shipping_address")
        /\ pending[p].current_doc["shipping_address"] # call[p].updates["shipping_address"]
        /\ pending[p].after["shipping_address"] = call[p].updates["shipping_address"]

(* C8 as stated: create() submits caller-supplied created_at and           *)
(* updated_at unchanged, and the caller's document has both afterwards.    *)
C8_CallerTimestampsKept ==
    \A p \in Procs :
        call[p].op = "create" =>
            LET document == call[p].document
                sent == pending[p].doc
            IN /\ Has(sent, "created_at") /\ Has(sent, "updated_at")
               /\ Has(document, "created_at") => sent["created_at"] = document["created_at"]
               /\ Has(document, "updated_at") => sent["updated_at"] = document["updated_at"]

(* C8 amended: create() keeps a caller-supplied created_at and sets it to  *)
(* the time of the call otherwise; it always sets updated_at to the time   *)
(* of the call; every other key is submitted unchanged.                    *)
C8_CreateStamps ==
    \A p \in Procs :
        call[p].op = "create" =>
            LET document == call[p].document
                sent == pending[p].doc
            IN /\ DOMAIN sent = DOMAIN document \cup {"created_at", "updated_at"}
               /\ sent["created_at"] = IF Has(document, "created_at")
                                       THEN document["created_at"] ELSE T(pending[p].at)
               /\ sent["updated_at"] = T(pending[p].at)
               /\ \A k \in DOMAIN document \ {"created_at", "updated_at"} : sent[k] = document[k]

C8_Witness ==
    \E p \in Procs :
        /\ Finished(p) /\ call[p].op = "create" /\ result[p].success
        /\ Has(call[p].document, "created_at") /\ Has(call[p].document, "updated_at")
        /\ pending[p].doc["created_at"] = call[p].document["created_at"]
        /\ pending[p].doc["updated_at"] # call[p].document["updated_at"]

(* C9: read() returns success with the response's document on a 200; the  *)
(* error value it returns for a 404 differs from the one it returns for    *)
(* any other status and for a transport exception.                         *)
ReadDone(p) == Finished(p) /\ call[p].op = "read"
C9_NotFoundIsDistinct ==
    \A p \in Procs, q \in Procs :
        /\ ReadDone(p) /\ pending[p].status = 200 =>
              /\ result[p].success
              /\ result[p].payload = [document |-> pending[p].current_doc]
        /\ ReadDone(p) /\ pending[p].status # 200 => ~result[p].success
        /\ ReadDone(p) /\ ReadDone(q) /\ pending[p].status = 404
              /\ pending[q].status \notin {200, 404}
              => result[p].error # result[q].error

C9_Witness ==
    \E p \in Procs, q \in Procs :
        /\ ReadDone(p) /\ pending[p].status = 404
        /\ ReadDone(q) /\ pending[q].status = 500
        /\ ~result[p].success /\ ~result[q].success

(* C10: after a successful soft delete the stored document has deleted =   *)
(* true and the deleted_at the call set, and every other field but         *)
(* updated_at and the store's revision token as before; while it stays as  *)
(* written, read and find return it and get_sales_summary counts it.       *)
SoftDeleted(p) ==
    /\ PutSent(p) /\ call[p].op = "delete" /\ call[p].soft /\ result[p].success
    /\ pending[p].before # EmptyDoc
OrderIds(d) == {i \in DOMAIN d : Has(d[i], "type") /\ d[i]["type"] = S("order")}
C10_SoftDeleteKeepsDocument ==
    \A p \in Procs :
        SoftDeleted(p) =>
            LET id == call[p].id
                before == pending[p].before
                after == pending[p].after
                found == FindOn(db, FindQuery(OrderSelector, FindDefaultLimit, 0, {}), "none")
                summary == SalesSummaryRun(db, "none").out
            IN /\ before = pending[p].current_doc
               /\ DOMAIN after = DOMAIN before \cup {"deleted", "deleted_at", "updated_at"}
               /\ after["deleted"] = B(TRUE)
               /\ after["deleted_at"] = call[p].updates["deleted_at"]
               /\ \A k \in DOMAIN before \ {"deleted", "deleted_at", "updated_at", "_rev"} :
                     after[k] = before[k]
               /\ id \in DOMAIN db /\ db[id] = after =>
                     /\ Read(StoreGet(db, id)).success
                     /\ Read(StoreGet(db, id)).payload.document = after
                     /\ Get(after, "type", None) = S("order") =>
                           /\ \E i \in 1..Len(found.payload.documents) :
                                 found.payload.documents[i] = after
                           /\ summary.success
                           /\ summary.payload.total_orders = N(Cardinality(OrderIds(db)))

C10_Witness ==
    \E p \in Procs :
        /\ SoftDeleted(p)
        /\ call[p].id \in DOMAIN db /\ db[call[p].id] = pending[p].after
        /\ Get(db[call[p].id], "type", None) = S("order")
        /\ SalesSummaryRun(db, "none").out.payload.total_orders = N(1)

----------------------------------------------------------------------------
(* Properties of the Aggregation Engine, checked under SpecAnalytics       *)

StoredOrders(d) == Matching(d, OrderSelector)
StoredRevenue(d) ==
    LET orders == StoredOrders(d)
    IN SumFrom([i \in 1..Len(orders) |-> Get(orders[i], "total", N(0))], 1, 0).val

(* C3: a sales summary that succeeded reports as total_orders the number   *)
(* of order documents in the store and as total_revenue the sum of their   *)
(* stored totals, however many there are.                                  *)
C3_SummaryCoversAllOrders ==
    agg.name = "sales_summary" /\ agg.out.success =>
        /\ agg.out.payload.total_orders = N(Len(StoredOrders(db)))
        /\ agg.out.payload.total_revenue = N(StoredRevenue(db))

(* C5: no aggregation raises, whatever documents the store returns: each   *)
(* one that ran has returned a result with a boolean `success`.            *)
C5_AggregationsNeverRaise ==
    agg.name # "none" => ~agg.out.raised /\ agg.out.success \in BOOLEAN

FailedQueries == {i \in 1..Len(agg.queries) : ~agg.queries[i].success}

(* C6 as stated: when one of the find queries of an aggregation fails, the *)
(* aggregation returns that failure.                                       *)
C6_AnyFailureReturned ==
    \A i \in FailedQueries : ~agg.out.success /\ Brief(agg.out) = agg.queries[i]

(* C6 amended: a failed find query is the last one issued and its failure  *)
(* is what the aggregation returns, except the events query of recent      *)
(* activity, whose failure yields a success result with no events and the  *)
(* orders of the window; a failed customers query is the only query of     *)
(* customer analytics.                                                     *)
C6_FailureShortCircuits ==
    \A i \in FailedQueries :
        /\ i = Len(agg.queries)
        /\ IF agg.name = "recent_activity" /\ i = 2
           THEN /\ agg.out.success /\ ~agg.out.raised
                /\ agg.out.payload.events = <<>>
                /\ agg.out.payload.total_events = N(0)
                /\ agg.out.payload.total_orders = N(Len(agg.out.payload.orders))
           ELSE ~agg.out.success /\ ~agg.out.raised /\ Brief(agg.out) = agg.queries[i]
        /\ agg.name = "customer_analytics" /\ i = 1 => Len(agg.queries) = 1

C6_Witness ==
    /\ agg.name = "recent_activity"
    /\ Len(agg.queries) = 2 /\ ~agg.queries[2].success
    /\ agg.out.success /\ agg.out.payload.total_orders # N(0)

----------------------------------------------------------------------------
(* Hard delete, checked under Spec                                         *)

HardDelete(p) == Finished(p) /\ call[p].op = "delete" /\ ~call[p].soft
Overtaken(p) ==
    /\ HardDelete(p) /\ pending[p].sent
    /\ pending[p].before # EmptyDoc /\ pending[p].before["_rev"] # pending[p].rev

(* C11: a hard delete sends its DELETE with the revision it has just read;  *)
(* when it returns success the document is gone and a read of the id fails *)
(* until somebody creates it again; when the read found no document no     *)
(* DELETE is sent and the read's not-found failure is returned; when the   *)
(* document was changed between the read and the DELETE, the delete        *)
(* returns a failure and the document stays as the other writer left it.   *)
C11_HardDeleteGuardedByRevision ==
    \A p \in Procs :
        HardDelete(p) =>
            /\ pending[p].sent => pending[p].rev # None /\ pending[p].status = 200
            /\ result[p].success =>
                  /\ pending[p].sent
                  /\ pending[p].before # EmptyDoc /\ pending[p].before["_rev"] = pending[p].rev
                  /\ pending[p].after = EmptyDoc
                  /\ call[p].id \notin DOMAIN db =>
                        /\ ~Read(StoreGet(db, call[p].id)).success
                        /\ Read(StoreGet(db, call[p].id)).error = ErrNotFound
            /\ pending[p].status = 404 =>
                  ~pending[p].sent /\ ~result[p].success /\ result[p].error = ErrNotFound
            /\ Overtaken(p) =>
                  ~result[p].success /\ ~result[p].raised /\ pending[p].after = pending[p].before

C11_Witness ==
    \E p \in Procs, q \in Procs :
        /\ Overtaken(p) /\ result[p].error = ErrHttp(409)
        /\ call[p].id \in DOMAIN db /\ db[call[p].id] = pending[p].before
        /\ PutSent(q) /\ result[q].success /\ pending[q].after = pending[p].before

----------------------------------------------------------------------------
(* bulk_create against stores that already hold some of the documents      *)

MaxBulk == 10
BulkIds == 1..MaxBulk
(* the first n of a run of factory-made orders, identifiers 1..n *)
BulkBatch(n) == [i \in 1..n |-> Del(FactoryOrder(i, 10), "updated_at")]
BulkBatches == {BulkBatch(n) : n \in 0..MaxBulk} \cup {BulkBatch(2) \o BulkBatch(1)}

InitBulk ==
    /\ \E ids \in SUBSET BulkIds :
          db = [i \in ids |-> Put(FactoryOrder(i, 5), "_rev", R(1))]
    /\ nextRev = 2
    /\ now = 1
    /\ pc = [p \in Procs |-> "idle"]
    /\ call = [p \in Procs |-> NoCall]
    /\ pending = [p \in Procs |-> NoPending]
    /\ result = [p \in Procs |-> NoResult]
    /\ agg = NoAgg

(* one bulk_create per store *)
RunBulkCreate(documents, fault) ==
    /\ call["a"] = NoCall
    /\ BulkCreateStep("a", documents, fault)
    /\ UNCHANGED <<now, pc, agg>>

NextBulk == \E documents \in BulkBatches, fault \in FindFaults : RunBulkCreate(documents, fault)

SpecBulk == InitBulk /\ [][NextBulk]_vars

BulkDone(p) == Finished(p) /\ call[p].op = "bulk_create"
OkEntries(results) ==
    {i \in 1..Len(results) : Has(results[i], "ok") /\ results[i]["ok"] = B(TRUE)}

(* C12: a bulk_create answered with 201 returns success, with              *)
(* success_count the number of entries of the response marked ok, which is *)
(* the number of documents the store took, error_count the number it did   *)
(* not take, and success_count + error_count = total = the number of       *)
(* documents submitted; a bulk_create returns a failure only for a         *)
(* response other than 201 or a transport exception.                       *)
C12_BulkCountsPartialSuccess ==
    \A p \in Procs :
        BulkDone(p) =>
            LET submitted == Len(call[p].document.list)
                data == result[p].payload
            IN /\ result[p].success <=> pending[p].status = 201
               /\ result[p].success =>
                     /\ data.total = N(submitted)
                     /\ data.success_count = N(Cardinality(OkEntries(data.results)))
                     /\ data.success_count = N(pending[p].stored)
                     /\ data.error_count = N(submitted - pending[p].stored)
                     /\ data.success_count.num + data.error_count.num = submitted
                     /\ Len(data.results) = submitted

C12_Witness ==
    \E p \in Procs :
        /\ BulkDone(p) /\ result[p].success
        /\ result[p].payload.total = N(10)
        /\ result[p].payload.success_count = N(7)
        /\ result[p].payload.error_count = N(3)

----------------------------------------------------------------------------
(* Figures of the aggregations, checked under SpecAnalytics                *)

Abs(x) == IF x < 0 THEN -x ELSE x
Summary == agg.out.payload
SummaryDone == agg.name = "sales_summary" /\ agg.out.success

StoredItems(d) == LineItems(StoredOrders(d), 1).items
QuantityOf(items, pid) ==
    LET mine == SelectSeq(items, LAMBDA product : ProductIdOf(product) = pid)
    IN SumFrom([k \in 1..Len(mine) |-> Get(mine[k], "quantity", N(1))], 1, 0).val
FirstIndex(items, pid) ==
    CHOOSE k \in 1..Len(items) :
        /\ ProductIdOf(items[k]) = pid
        /\ \A j \in 1..(k - 1) : ProductIdOf(items[j]) # pid
Ranked(data, items, limit) ==
    /\ Len(data) <= limit
    /\ \A k \in 1..(Len(data) - 1) : data[k].total_quantity >= data[k + 1].total_quantity
    /\ \A k \in 1..Len(data) :
          /\ \E j \in 1..Len(items) : ProductIdOf(items[j]) = data[k].key
          /\ data[k].total_quantity = QuantityOf(items, data[k].key)
    /\ \A j \in 1..Len(data), k \in 1..Len(data) :
          j < k /\ data[j].total_quantity = data[k].total_quantity
              => FirstIndex(items, data[j].key) < FirstIndex(items, data[k].key)
TopDone == agg.name = "top_products" /\ agg.out.success

(* C14: get_top_products(limit) returns at most `limit` products in        *)
(* non-increasing order of total_quantity, each total_quantity being the   *)
(* sum of the quantities of all the line items of that product in the      *)
(* store's orders, products of equal total_quantity in the order of their  *)
(* first line item.                                                        *)
C14_TopProductsRanked ==
    TopDone => Ranked(agg.out.payload.data, StoredItems(db), agg.arg)

StoredCustomers(d) == Matching(d, CustomerSelector)
OrdersOfCustomer(d, customer) ==
    SelectSeq(StoredOrders(d), LAMBDA o : Get(o, "customer_id", None) = customer["_id"])
SpentBy(d, customer) ==
    LET mine == OrdersOfCustomer(d, customer)
    IN SumFrom([j \in 1..Len(mine) |-> Get(mine[j], "total", N(0))], 1, 0).val
IsLatest(date, mine) ==
    IF mine = <<>> THEN date = None
    ELSE /\ \E j \in 1..Len(mine) : mine[j]["created_at"] = date
         /\ \A j \in 1..Len(mine) : mine[j]["created_at"].time <= date.time
CustomersDone == agg.name = "customer_analytics" /\ agg.out.success

(* C15: in a customer analytics result every customer of the store has an  *)
(* entry whose total_orders and total_spent are the count and the sum of   *)
(* `total` of the store's orders with that customer_id, and whose          *)
(* last_order_date is the latest created_at among them; active_customers   *)
(* is the number of customers with an order, at most total_customers, and  *)
(* average_orders_per_customer is the sum of total_orders divided by       *)
(* total_customers, 0 without customers.                                   *)
C15_CustomerFigures ==
    CustomersDone =>
        LET customers == StoredCustomers(db)
            data == agg.out.payload
            details == data.customer_details
            counts == [k \in 1..Len(customers) |-> Len(OrdersOfCustomer(db, customers[k]))]
        IN /\ data.total_customers = N(Len(customers))
           /\ Len(details) = Len(customers)
           /\ \A k \in 1..Len(customers) :
                 /\ details[k].total_orders = counts[k]
                 /\ details[k].total_spent = SpentBy(db, customers[k])
                 /\ IsLatest(details[k].last_order_date, OrdersOfCustomer(db, customers[k]))
           /\ data.active_customers = N(Cardinality({k \in 1..Len(customers) : counts[k] > 0}))
           /\ data.active_customers.num <= data.total_customers.num
           /\ IF customers = <<>> THEN data.average_orders_per_customer = N(0)
              ELSE data.average_orders_per_customer.num * Len(customers)
                      = 100 * SumRange([k \in 1..Len(customers) |-> N(counts[k])],
                                       1, Len(customers)).val

StoredProducts(d) == Matching(d, ProductSelector)
Priced(products) == SelectSeq(products, LAMBDA p : Has(p, "price") /\ Truthy(p["price"]))
CountIn(products, category) ==
    Cardinality({k \in 1..Len(products) : Get(products[k], "category", S("Unknown")) = category})
ProductsDone == agg.name = "product_performance" /\ agg.out.success

(* C16: in a product performance result min, max and mean price are taken  *)
(* over the store's products with a truthy price only; when there is none  *)
(* (no product, or prices of 0 or absent) the call succeeds with all three *)
(* at 0; the category histogram counts every product of the store.         *)
C16_PriceStatistics ==
    /\ ProductsDone =>
          LET products == StoredProducts(db)
              priced == Priced(products)
              data == agg.out.payload
              sum == SumFrom([k \in 1..Len(priced) |-> priced[k]["price"]], 1, 0).val
          IN /\ IF priced = <<>>
                THEN data.min_price = N(0) /\ data.max_price = N(0) /\ data.average_price = N(0)
                ELSE /\ \E k \in 1..Len(priced) : priced[k]["price"] = data.min_price
                     /\ \E k \in 1..Len(priced) : priced[k]["price"] = data.max_price
                     /\ \A k \in 1..Len(priced) :
                           /\ data.min_price.num <= priced[k]["price"].num
                           /\ priced[k]["price"].num <= data.max_price.num
                     /\ 2 * Abs(data.average_price.num * Len(priced) - sum) <= Len(priced)
             /\ \A k \in 1..Len(products) :
                   LET category == Get(products[k], "category", S("Unknown"))
                   IN /\ category \in DOMAIN data.categories
                      /\ data.categories[category] = CountIn(products, category)
    /\ agg.name = "product_performance" /\ agg.queries[1].success
          /\ Priced(StoredProducts(db)) = <<>> => agg.out.success

InWindow(stamp, days) == now - days <= stamp.time /\ stamp.time <= now
RecentOrders(d, days) ==
    SelectSeq(StoredOrders(d), LAMBDA o : Has(o, "created_at") /\ InWindow(o["created_at"], days))
RecentDone == agg.name = "recent_activity" /\ agg.out.success

(* C17: a recent activity result lists at most 20 events, and its orders   *)
(* are all the orders of the store created in the window from `days` days  *)
(* ago to now, total_orders being their number.                            *)
C17_RecentOrdersComplete ==
    RecentDone =>
        /\ Len(agg.out.payload.events) <= EventsShown
        /\ agg.out.payload.orders = RecentOrders(db, agg.arg)
        /\ agg.out.payload.total_orders = N(Len(RecentOrders(db, agg.arg)))

----------------------------------------------------------------------------
(* The views of setup_analytics_views: the JavaScript map and reduce       *)
(* functions the store runs, first over map rows (rereduce = false), then  *)
(* over the results of such passes (rereduce = true).                      *)

(* JavaScript: a || b, and a + b, which concatenates when either operand   *)
(* is a string                                                             *)
JsOr(a, b) == IF Truthy(a) THEN a ELSE b
JsString(a) == IF IsStr(a) THEN a.str ELSE ToString(a.num)
JsAdd(a, b) ==
    IF IsNum(a) /\ IsNum(b) THEN N(a.num + b.num) ELSE S(JsString(a) \o JsString(b))
JsInc(a, hit) == IF hit THEN JsAdd(a, N(1)) ELSE a
(* a / b, left unevaluated *)
JsDiv(a, b) == [over |-> a, by |-> b]

(* sales_by_month *)
SalesByMonthMap(doc) ==
    IF Get(doc, "type", None) = S("order") /\ Truthy(Get(doc, "created_at", None))
          /\ Truthy(Get(doc, "total", None))
    THEN <<[total |-> doc["total"], count |-> N(1), status |-> Get(doc, "status", None)]>>
    ELSE <<>>
SalesStep(acc, value, rereduce) ==
    IF rereduce
    THEN [total |-> JsAdd(acc.total, JsOr(Get(value, "total", None), N(0))),
          count |-> JsAdd(acc.count, JsOr(Get(value, "count", None), N(0))),
          delivered |-> JsAdd(acc.delivered, JsOr(Get(value, "delivered", None), N(0))),
          pending |-> JsAdd(acc.pending, JsOr(Get(value, "pending", None), N(0))),
          cancelled |-> JsAdd(acc.cancelled, JsOr(Get(value, "cancelled", None), N(0)))]
    ELSE [total |-> JsAdd(acc.total, JsOr(Get(value, "total", None), N(0))),
          count |-> JsAdd(acc.count, N(1)),
          delivered |-> JsInc(acc.delivered, Get(value, "status", None) = S("delivered")),
          pending |-> JsInc(acc.pending, Get(value, "status", None) = S("pending")),
          cancelled |-> JsInc(acc.cancelled, Get(value, "status", None) = S("cancelled"))]
RECURSIVE SalesLoop(_, _, _, _)
SalesLoop(values, i, acc, rereduce) ==
    IF i > Len(values) THEN acc
    ELSE SalesLoop(values, i + 1, SalesStep(acc, values[i], rereduce), rereduce)
SalesByMonthReduce(values, rereduce) ==
    SalesLoop(values, 1,
              [total |-> N(0), count |-> N(0), delivered |-> N(0), pending |-> N(0),
               cancelled |-> N(0)],
              rereduce)

(* products_by_category *)
ProductsByCategoryMap(doc) ==
    IF Get(doc, "type", None) = S("product") /\ Truthy(Get(doc, "category", None))
          /\ Truthy(Get(doc, "price", None))
    THEN <<[count |-> N(1), total_value |-> doc["price"], avg_price |-> doc["price"],
            product_name |-> Get(doc, "name", None)]>>
    ELSE <<>>
CategoryStep(acc, value, rereduce) ==
    [count |-> JsAdd(acc.count, IF rereduce THEN Get(value, "count", None) ELSE N(1)),
     total_value |-> JsAdd(acc.total_value,
                           JsOr(Get(value, "total_value", None),
                                JsOr(Get(value, "avg_price", None), N(0))))]
RECURSIVE CategoryLoop(_, _, _, _)
CategoryLoop(values, i, acc, rereduce) ==
    IF i > Len(values) THEN acc
    ELSE CategoryLoop(values, i + 1, CategoryStep(acc, values[i], rereduce), rereduce)
ProductsByCategoryReduce(values, rereduce) ==
    LET summed == CategoryLoop(values, 1, [count |-> N(0), total_value |-> N(0)], rereduce)
    IN [count |-> summed.count,
        total_value |-> summed.total_value,
        avg_price |-> IF IsNum(summed.count) /\ summed.count.num > 0
                      THEN JsDiv(summed.total_value, summed.count) ELSE N(0)]

(* The rows of one key, cut into consecutive groups after the positions    *)
(* in `cuts`                                                               *)
Groups(rows, cuts) ==
    LET ends == SortedIds(cuts \cup (IF rows = <<>> THEN {} ELSE {Len(rows)}))
    IN [k \in 1..Len(ends) |->
          SubSeq(rows, IF k = 1 THEN 1 ELSE ends[k - 1] + 1, ends[k])]
RECURSIVE Emitted(_, _, _)
Emitted(docs, i, map_function) ==
    IF i > Len(docs) THEN <<>>
    ELSE (IF map_function = "sales_by_month" THEN SalesByMonthMap(docs[i])
          ELSE ProductsByCategoryMap(docs[i])) \o Emitted(docs, i + 1, map_function)
ViewReduce(name, values, rereduce) ==
    IF name = "sales_by_month" THEN SalesByMonthReduce(values, rereduce)
    ELSE ProductsByCategoryReduce(values, rereduce)

MaxRows == 3
ViewOrder(total, status) ==
    [type |-> S("order"), created_at |-> T(0), total |-> total, status |-> S(status)]
ViewProduct(price) ==
    [type |-> S("product"), category |-> S("Books"), name |-> S("b"), price |-> price]
ViewDocs ==
    [sales_by_month |->
        {ViewOrder(N(100), "delivered"), ViewOrder(N(50), "pending"),
         ViewOrder(N(50), "cancelled"), ViewOrder(N(100), "shipped"),
         ViewOrder(N(0), "delivered"), ViewOrder(S("10.0"), "pending")},
     products_by_category |->
        {ViewProduct(N(100)), ViewProduct(N(50)), ViewProduct(N(0)),
         ViewProduct(S("12.5"))}]
DocLists(name) == UNION {[1..n -> ViewDocs[name]] : n \in 0..MaxRows}

(* The store builds a view's value for one key: one pass over all the rows, *)
(* and, as it does over the nodes of its index, one pass per group         *)
(* followed by a pass over the groups' results.                            *)
BuildView(name, docs, cuts) ==
    /\ agg = NoAgg
    /\ LET rows == Emitted(docs, 1, name)
           groups == Groups(rows, cuts \cap (1..(Len(rows) - 1)))
           partials == [k \in 1..Len(groups) |-> ViewReduce(name, groups[k], FALSE)]
       IN agg' = [name |-> name, arg |-> Len(groups), queries |-> <<>>,
                  out |-> Returned(TRUE, NoErr, "view built",
                            [rows |-> rows,
                             whole |-> ViewReduce(name, rows, FALSE),
                             combined |-> ViewReduce(name, partials, TRUE)])]
    /\ UNCHANGED <<db, nextRev, now, pc, call, pending, result>>

NextViews ==
    \E name \in DOMAIN ViewDocs :
        \E docs \in DocLists(name), cuts \in SUBSET (1..(MaxRows - 1)) :
            BuildView(name, docs, cuts)

SpecViews == Init /\ [][NextViews]_vars

SalesView == agg.name = "sales_by_month"
View == agg.out.payload
ExampleRows ==
    <<[total |-> N(100), count |-> N(1), status |-> S("delivered")],
      [total |-> N(50), count |-> N(1), status |-> S("pending")]>>

(* C18: for the sales_by_month reduce, reducing the groups of any split of *)
(* the rows and then the partial results (rereduce) gives the same total,  *)
(* count, delivered, pending and cancelled as one pass over all the rows;  *)
(* for one delivered row of 100 and one pending row of 50 both give total  *)
(* 150, count 2, delivered 1, pending 1, cancelled 0.                      *)
C18_SalesRereduceAgrees ==
    SalesView =>
        /\ View.combined = View.whole
        /\ View.rows = ExampleRows =>
              View.whole = [total |-> N(150), count |-> N(2), delivered |-> N(1),
                            pending |-> N(1), cancelled |-> N(0)]

CategoryView == agg.name = "products_by_category"
RowPrices == [k \in 1..Len(View.rows) |-> View.rows[k].total_value]
AveragePrice(reduced) ==
    IF reduced.count = N(0) THEN N(0) ELSE JsDiv(reduced.total_value, reduced.count)

(* C19: for the products_by_category reduce, the rereduce of the groups'   *)
(* partial results has the count and total_value of one pass over all the  *)
(* rows, count being the number of rows and total_value the sum of their   *)
(* prices, and avg_price is total_value / count, 0 when count is 0.        *)
C19_CategoryRereduceAgrees ==
    CategoryView =>
        /\ View.combined.count = View.whole.count
        /\ View.combined.total_value = View.whole.total_value
        /\ View.whole.count = N(Len(View.rows))
        /\ View.whole.total_value = N(SumFrom(RowPrices, 1, 0).val)
        /\ ~SumFrom(RowPrices, 1, 0).raised
        /\ View.whole.avg_price = AveragePrice(View.whole)
        /\ View.combined.avg_price = AveragePrice(View.combined)

----------------------------------------------------------------------------
(* Texts, as the admin script writes them to a file and reads them back.   *)
(* A text is a sequence of tokens: a punctuation character P(c), a quoted  *)
(* string Q(v) as JSON writes the str v, or a run of plain characters,     *)
(* which is the str value it spells (S("Books"), an identifier, a          *)
(* timestamp, the digits of a number).  A str that is more than one plain  *)
(* run is Chars(text).  Object keys are plain strings.                     *)

P(c) == [p |-> c]
Q(v) == [q |-> v]
Chars(text) == [chars |-> text]
IsPunct(tok) == DOMAIN tok = {"p"}
IsQuoted(tok) == DOMAIN tok = {"q"}
IsNested(v) == DOMAIN v \in {{"obj"}, {"list"}}

(* the numbers whose digits the model can read back *)
MaxNumeral == 30
IsNumeral(tok) == IsStr(tok) /\ \E n \in 0..MaxNumeral : ToString(n) = tok.str
NumOf(tok) == CHOOSE n \in 0..MaxNumeral : ToString(n) = tok.str

(* str(value), as csv.DictWriter writes a cell that is not a str already *)
PyStr(v) ==
    IF v = None \/ v = S("") THEN <<>>
    ELSE IF IsNum(v) THEN <<S(ToString(v.num))>>
    ELSE IF DOMAIN v = {"bool"} THEN <<S(IF v.bool THEN "True" ELSE "False")>>
    ELSE IF DOMAIN v = {"chars"} THEN v.chars
    ELSE <<v>>
(* the str a text read from a file is *)
StrOf(text) ==
    IF text = <<>> THEN S("")
    ELSE IF Len(text) = 1 /\ ~IsPunct(text[1]) /\ ~IsQuoted(text[1]) THEN text[1]
    ELSE Chars(text)

(* json.dumps(value) *)
RECURSIVE JsonDumps(_), DumpMembers(_, _), DumpItems(_, _)
DumpMembers(f, keys) ==
    IF keys = {} THEN <<>>
    ELSE LET k == CHOOSE x \in keys : TRUE
             rest == DumpMembers(f, keys \ {k})
         IN <<Q(S(k)), P(":")>> \o JsonDumps(f[k])
                \o (IF rest = <<>> THEN <<>> ELSE <<P(",")>> \o rest)
DumpItems(seq, i) ==
    IF i > Len(seq) THEN <<>>
    ELSE JsonDumps(seq[i]) \o (IF i < Len(seq) THEN <<P(",")>> ELSE <<>>)
            \o DumpItems(seq, i + 1)
JsonDumps(v) ==
    IF DOMAIN v = {"obj"} THEN <<P("{")>> \o DumpMembers(v.obj, DOMAIN v.obj) \o <<P("}")>>
    ELSE IF DOMAIN v = {"list"} THEN <<P("[")>> \o DumpItems(v.list, 1) \o <<P("]")>>
    ELSE IF IsNum(v) THEN <<S(ToString(v.num))>>
    ELSE IF DOMAIN v = {"bool"} THEN <<S(IF v.bool THEN "true" ELSE "false")>>
    ELSE IF v = None THEN <<S("null")>>
    ELSE <<Q(v)>>

(* json.loads(text): the value parsed from position i on and the position  *)
(* after it, or a JSONDecodeError                                          *)
Parsed(v, next) == [ok |-> TRUE, value |-> v, next |-> next]
DecodeError == [ok |-> FALSE, value |-> None, next |-> 0]
RECURSIVE ParseValue(_, _), ParseMembers(_, _, _), ParseItems(_, _, _)
ParseValue(text, i) ==
    IF i > Len(text) THEN DecodeError
    ELSE LET tok == text[i] IN
         IF tok = P("{")
         THEN IF i < Len(text) /\ text[i + 1] = P("}") THEN Parsed(O(EmptyDoc), i + 2)
              ELSE ParseMembers(text, i + 1, EmptyDoc)
         ELSE IF tok = P("[")
         THEN IF i < Len(text) /\ text[i + 1] = P("]") THEN Parsed(L(<<>>), i + 2)
              ELSE ParseItems(text, i + 1, <<>>)
         ELSE IF IsPunct(tok) THEN DecodeError
         ELSE IF IsQuoted(tok) THEN Parsed(tok.q, i + 1)
         ELSE IF tok = S("true") THEN Parsed(B(TRUE), i + 1)
         ELSE IF tok = S("false") THEN Parsed(B(FALSE), i + 1)
         ELSE IF tok = S("null") THEN Parsed(None, i + 1)
         ELSE IF IsNumeral(tok) THEN Parsed(N(NumOf(tok)), i + 1)
         ELSE DecodeError
ParseMembers(text, i, members) ==
    IF i + 1 > Len(text) \/ ~IsQuoted(text[i]) \/ text[i + 1] # P(":") THEN DecodeError
    ELSE IF ~IsStr(text[i].q) THEN DecodeError
    ELSE LET v == ParseValue(text, i + 2)
             got == Put(members, text[i].q.str, v.value)
         IN IF ~v.ok \/ v.next > Len(text) THEN DecodeError
            ELSE IF text[v.next] = P("}") THEN Parsed(O(got), v.next + 1)
            ELSE IF text[v.next] = P(",") THEN ParseMembers(text, v.next + 1, got)
            ELSE DecodeError
ParseItems(text, i, items) ==
    LET v == ParseValue(text, i)
        got == Append(items, v.value)
    IN IF ~v.ok \/ v.next > Len(text) THEN DecodeError
       ELSE IF text[v.next] = P("]") THEN Parsed(L(got), v.next + 1)
       ELSE IF text[v.next] = P(",") THEN ParseItems(text, v.next + 1, got)
       ELSE DecodeError
JsonLoads(text) ==
    LET v == ParseValue(text, 1)
    IN IF v.ok /\ v.next = Len(text) + 1 THEN v ELSE DecodeError

(* json.dumps that leaves the brackets of a list out *)
CsvCellBare(value) ==
    IF DOMAIN value = {"list"} THEN DumpItems(value.list, 1)
    ELSE IF IsNested(value) THEN JsonDumps(value)
    ELSE PyStr(value)
(* export_data: a cell of the CSV file *)
CsvCell(value) ==
    IF IsNested(value) THEN JsonDumps(value) ELSE PyStr(value)

(* import_data: a kept cell a number whenever its digits say so *)
CsvValueTyped(cell) ==
    IF cell # <<>> /\ cell[1] \in {P("{"), P("[")} /\ JsonLoads(cell).ok
    THEN JsonLoads(cell).value
    ELSE IF Len(cell) = 1 /\ IsNumeral(cell[1]) THEN N(NumOf(cell[1]))
    ELSE StrOf(cell)
(* import_data: the value a cell of a CSV row becomes *)
CsvValue(cell) ==
    IF cell # <<>> /\ cell[1] \in {P("{"), P("[")}
    THEN IF JsonLoads(cell).ok THEN JsonLoads(cell).value ELSE StrOf(cell)
    ELSE StrOf(cell)

----------------------------------------------------------------------------
(* CouchDBAdmin.export_data (src/scripts/admin.py): one export run against *)
(* a store that nothing else writes to.  `agg` holds the run: the queries  *)
(* sent so far, the number of responses received, the sizes of the pages   *)
(* received, the documents accumulated, the file written and the result.   *)

MaxExport == 4
MaxBatch == 2
ExportTypes == {"", "order", "product"}
ExportFormats == {"json", "csv", "xml"}

ExportStore(kinds) ==
    [i \in {j \in 1..MaxExport : kinds[j] # "none"} |->
        Put(FillDoc(kinds[i], i), "_rev", R(1))]

InitExport ==
    /\ \E kinds \in [1..MaxExport -> {"none", "order", "product"}] :
          db = ExportStore(kinds)
    /\ nextRev = 2
    /\ now = 1
    /\ pc = [p \in Procs |-> "idle"]
    /\ call = [p \in Procs |-> NoCall]
    /\ pending = [p \in Procs |-> NoPending]
    /\ result = [p \in Procs |-> NoResult]
    /\ \E batch_size \in 1..MaxBatch, doc_type \in ExportTypes, format \in ExportFormats :
          agg = [name |-> "export", at |-> "count", batch_size |-> batch_size,
                 selector |-> IF doc_type = "" THEN EmptyDoc ELSE [type |-> S(doc_type)],
                 format |-> format, skip |-> 0, all_documents |-> <<>>,
                 sent |-> <<>>, received |-> 0, pages |-> <<>>,
                 file |-> None, out |-> NoResult]

(* a paging that steps one document too far *)
NextSkipOffByOne(skip, batch_size) == skip + batch_size + 1
(* skip += batch_size *)
NextSkip(skip, batch_size) == skip + batch_size

(* the CSV file: a column per key of any document, a row per document,    *)
(* an empty cell where the document lacks the key                          *)
CsvFile(documents) ==
    LET all_keys == UNION {DOMAIN documents[k] : k \in 1..Len(documents)}
    IN [format |-> "csv", fieldnames |-> all_keys,
        rows |-> [k \in 1..Len(documents) |->
                    [key \in all_keys |->
                        CsvCell(Get(documents[k], key, S("")))]]]

(* what follows the loop: the file written and the result returned *)
ExportWrite(all_documents, format, io) ==
    LET done == Returned(TRUE, NoErr, "Exported documents",
                         [document_count |-> N(Len(all_documents))])
        failed == Try(Raised("OSError"), "Exception during export")
    IN IF all_documents = <<>>
       THEN [file |-> None,
             out |-> Returned(FALSE, NoErr, "No documents found to export", EmptyDoc)]
       ELSE IF format \notin {"json", "csv"}
       THEN [file |-> None,
             out |-> Returned(FALSE, ErrText("Unsupported format"),
                              "Format must be 'json' or 'csv'", EmptyDoc)]
       ELSE IF io # "none" THEN [file |-> None, out |-> failed]
       ELSE IF format = "json"
       THEN [file |-> [format |-> "json", documents |-> all_documents], out |-> done]
       ELSE [file |-> CsvFile(all_documents), out |-> done]

(* self.client.find(...) is called: the count query first, then one page  *)
ExportSend ==
    /\ agg.name = "export"
    /\ agg.at \in {"count", "fetch"}
    /\ agg' = [agg EXCEPT
                 !.at = IF agg.at = "count" THEN "counting" ELSE "fetching",
                 !.sent = Append(@, IF agg.at = "count"
                                    THEN FindQuery(agg.selector, 1, 0, {})
                                    ELSE FindQuery(agg.selector, agg.batch_size, agg.skip, {}))]
    /\ UNCHANGED <<db, nextRev, now, pc, call, pending, result>>

(* the call returns: the rest of the loop body, and after the last page    *)
(* the writing of the file                                                 *)
ExportReceive(fault, io) ==
    /\ agg.name = "export"
    /\ agg.at \in {"counting", "fetching"}
    /\ LET r == FindOn(db, agg.sent[Len(agg.sent)], fault)
           got == [agg EXCEPT !.received = @ + 1]
       IN IF ~r.success
          THEN agg' = [got EXCEPT
                         !.at = "done",
                         !.out = Returned(FALSE, r.error,
                                    IF agg.at = "counting"
                                    THEN "Could not determine document count"
                                    ELSE "Failed to fetch batch", EmptyDoc)]
          ELSE IF agg.at = "counting"
          THEN agg' = [got EXCEPT !.at = "fetch"]
          ELSE LET documents == r.payload.documents
                   all_documents == agg.all_documents \o documents
                   page == [got EXCEPT
                              !.pages = Append(@, Len(documents)),
                              !.all_documents = all_documents,
                              !.skip = IF documents = <<>> THEN @
                                       ELSE NextSkip(@, agg.batch_size)]
                   written == ExportWrite(all_documents, agg.format, io)
               IN IF documents # <<>> /\ ~(Len(documents) < agg.batch_size)
                  THEN agg' = [page EXCEPT !.at = "fetch"]
                  ELSE agg' = [page EXCEPT !.at = "done",
                                           !.file = written.file,
                                           !.out = written.out]
    /\ UNCHANGED <<db, nextRev, now, pc, call, pending, result>>

NextExport ==
    \/ ExportSend
    \/ \E fault \in FindFaults, io \in Faults : ExportReceive(fault, io)

(* The run is one sequential thread of control: it takes its next step,    *)
(* and a call that was made returns.  That a pending call does return is   *)
(* stated on the return with a transport exception, which is possible      *)
(* exactly while a call is pending; any return ends the wait.              *)
SpecExport ==
    /\ InitExport
    /\ [][NextExport]_vars
    /\ WF_vars(ExportSend)
    /\ WF_vars(ExportReceive("exc", "none"))

ExportDone == agg.at = "done"
FetchFailed ==
    agg.out.message \in {"Could not determine document count", "Failed to fetch batch"}
PagesSent == SubSeq(agg.sent, 2, Len(agg.sent))
PagesInOrder ==
    \A k \in 1..Len(PagesSent) :
        PagesSent[k] = FindQuery(agg.selector, agg.batch_size, (k - 1) * agg.batch_size, {})
OneAtATime ==
    /\ agg.received <= Len(agg.sent)
    /\ Len(agg.sent) <= agg.received + 1
    /\ (Len(agg.sent) = agg.received + 1) <=> (agg.at \in {"counting", "fetching"})
StopsAtShortPage ==
    /\ \A k \in 1..Len(agg.pages) :
          agg.pages[k] < agg.batch_size =>
              k = Len(agg.pages) /\ ExportDone /\ Len(PagesSent) = k
    /\ ExportDone /\ ~FetchFailed =>
          /\ agg.pages # <<>>
          /\ agg.pages[Len(agg.pages)] < agg.batch_size
EveryDocumentOnce ==
    /\ agg.all_documents =
          SubSeq(Matching(db, agg.selector), 1, Len(agg.all_documents))
    /\ ExportDone /\ ~FetchFailed =>
          agg.all_documents = Matching(db, agg.selector)

----------------------------------------------------------------------------
(* CouchDBAdmin.import_data and restore_database (src/scripts/admin.py):   *)
(* one call against a store that holds some of the file's documents, as    *)
(* the file has them or modified since.  `agg` holds the call: the file,   *)
(* the arguments, the documents loaded, the batches submitted so far, the  *)
(* running counts and the result.                                          *)

MaxImport == 3
DefaultBatchSize == 1000
ImportBatchSizes == {-1, 0, 1, 2}

(* a document as an export wrote it, and one that never was in a store *)
ExportedDoc(k) == Put(FactoryOrder(k, 10), "_rev", R(1))
FreshDoc(k) == [_id |-> I(k), type |-> S("order"), total |-> N(10)]
ImportList(kind, n) ==
    [k \in 1..n |-> IF kind = "backup" \/ (kind = "mixed" /\ k % 2 = 1)
                    THEN ExportedDoc(k) ELSE FreshDoc(k)]
JsonFile(data) == [format |-> "json", data |-> data]
ImportFiles ==
    {JsonFile(L(ImportList(kind, n))) : kind \in {"backup", "fresh"}, n \in 0..MaxImport}
        \cup {JsonFile(L(ImportList("mixed", 2))), JsonFile(O(FreshDoc(1))),
              CsvFile(ImportList("mixed", 2)), None}
ImportStore(states) ==
    [k \in {j \in 1..MaxImport : states[j] # "absent"} |->
        IF states[k] = "same" THEN ExportedDoc(k)
        ELSE [ExportedDoc(k) EXCEPT !.total = N(20), !.updated_at = T(1), !["_rev"] = R(2)]]

ImportCall(op, file, format, batch_size, update_existing, confirm) ==
    [name |-> "import", op |-> op, file |-> file, format |-> format,
     batch_size |-> batch_size, update_existing |-> update_existing,
     confirm |-> confirm, at |-> "call", stamp |-> 0, documents |-> <<>>,
     i |-> 0, total_success |-> 0, total_errors |-> 0, submitted |-> <<>>,
     reads |-> 0, out |-> NoResult]
ImportCalls(file) ==
    {ImportCall("import", file, IF file = None THEN "json" ELSE file.format,
                batch_size, update_existing, FALSE) :
        batch_size \in ImportBatchSizes, update_existing \in BOOLEAN}
      \cup {ImportCall("import", file, format, 1, FALSE, FALSE) : format \in {"json", "xml"}}
      \cup {ImportCall("restore", file, "", 0, FALSE, confirm) : confirm \in BOOLEAN}

InitImport ==
    /\ \E states \in [1..MaxImport -> {"absent", "same", "modified"}] :
          db = ImportStore(states)
    /\ nextRev = 3
    /\ now = 1
    /\ pc = [p \in Procs |-> "idle"]
    /\ call = [p \in Procs |-> NoCall]
    /\ pending = [p \in Procs |-> NoPending]
    /\ result = [p \in Procs |-> NoResult]
    /\ \E file \in ImportFiles : agg \in ImportCalls(file)

(* the documents read from the file: json.load, or csv.DictReader and the  *)
(* re-parsing of the cells that look like JSON                             *)
ImportParse(file, format) ==
    IF format = "json"
    THEN IF file.format # "json" THEN Raised("JSONDecodeError")
         ELSE Returned(TRUE, NoErr, "",
                 [documents |-> IF IsList(file.data) THEN file.data.list
                                ELSE <<file.data.obj>>])
    ELSE Returned(TRUE, NoErr, "",
            [documents |-> [k \in 1..Len(file.rows) |->
                [key \in file.fieldnames |-> CsvValue(file.rows[k][key])]]])

(* import_data stamping a document without looking at update_existing *)
ImportStampKeepsRev(doc, t, update_existing) == CreateStamp(doc, t)
(* import_data: created_at if absent, updated_at always, _rev removed      *)
(* unless existing documents are to be updated                             *)
ImportStamp(doc, t, update_existing) ==
    LET stamped == CreateStamp(doc, t)
    IN IF ~update_existing /\ Has(stamped, "_rev") THEN Del(stamped, "_rev") ELSE stamped

(* range(0, len(documents), batch_size) has a next offset *)
HasBatch(i, n, batch_size) == batch_size > 0 /\ i < n

(* import_data: the result after the loop; restore_database: what it makes *)
(* of that result                                                          *)
ImportResult(run) ==
    Returned(run.total_success > 0, NoErr, "Import completed",
        [success_count |-> N(run.total_success), error_count |-> N(run.total_errors),
         total_documents |-> N(Len(run.documents))])
RestoreResult(op, r) ==
    IF op = "restore" /\ r.success
    THEN Returned(TRUE, NoErr, "Database restored",
                  [imported_documents |-> r.payload.success_count])
    ELSE r
ImportFailure(error, message) == Returned(FALSE, error, message, EmptyDoc)

(* a restore that imports without update_existing *)
RestoreArgsNoUpdate(run) ==
    [run EXCEPT !.format = "json", !.batch_size = DefaultBatchSize]
(* restore_database: import_data(backup_file, format='json',               *)
(* update_existing=True), the batch size left to its default               *)
RestoreArgs(run) ==
    [run EXCEPT !.format = "json", !.batch_size = DefaultBatchSize,
                !.update_existing = TRUE]

(* restore_database without confirm: refused before anything is done *)
RestoreRefuse ==
    /\ agg.name = "import" /\ agg.at = "call"
    /\ agg.op = "restore" /\ ~agg.confirm
    /\ agg' = [agg EXCEPT !.at = "done",
                 !.out = ImportFailure(NoErr, "Database restore requires confirmation")]
    /\ UNCHANGED <<db, nextRev, now, pc, call, pending, result>>

(* import_data up to the loop: the file is read and the documents stamped; *)
(* it returns here when there is nothing to submit                         *)
ImportLoad ==
    /\ agg.name = "import" /\ agg.at = "call"
    /\ agg.op = "restore" => agg.confirm
    /\ LET t == now
           run == IF agg.op = "restore" THEN RestoreArgs(agg) ELSE agg
           parsed == ImportParse(run.file, run.format)
           read == [run EXCEPT !.reads = 1, !.at = "done"]
           documents == [k \in 1..Len(parsed.payload.documents) |->
                            ImportStamp(parsed.payload.documents[k], t, run.update_existing)]
           loaded == [read EXCEPT !.stamp = t, !.documents = documents]
       IN agg' =
            IF run.file = None
            THEN [run EXCEPT !.at = "done",
                             !.out = ImportFailure(ErrText("File not found"),
                                                   "Input file does not exist")]
            ELSE IF run.format \notin {"json", "csv"}
            THEN [run EXCEPT !.at = "done",
                             !.out = ImportFailure(ErrText("Unsupported format"),
                                                   "Format must be 'json' or 'csv'")]
            ELSE IF parsed.raised
            THEN [read EXCEPT !.out = Try(parsed, "Exception during import")]
            ELSE IF documents = <<>>
            THEN [read EXCEPT !.out = ImportFailure(NoErr, "No documents found in input file")]
            ELSE IF run.batch_size = 0
            THEN [loaded EXCEPT !.out = Try(Raised("ValueError"), "Exception during import")]
            ELSE IF ~HasBatch(0, Len(documents), run.batch_size)
            THEN [loaded EXCEPT !.out = RestoreResult(run.op, ImportResult(loaded))]
            ELSE [loaded EXCEPT !.at = "batch"]
    /\ UNCHANGED <<db, nextRev, now, pc, call, pending, result>>

(* one pass of the loop: bulk_create of the next batch, the counts added,  *)
(* and the return after the last batch                                     *)
ImportBatch(fault, dt) ==
    /\ agg.name = "import" /\ agg.at = "batch"
    /\ now + dt <= MaxTime
    /\ now' = now + dt
    /\ LET t == now + dt
           n == Len(agg.documents)
           last == IF agg.i + agg.batch_size < n THEN agg.i + agg.batch_size ELSE n
           batch == SubSeq(agg.documents, agg.i + 1, last)
           sent == BulkStamp(batch, t)
           bulk == StoreBulk(db, sent, 1, nextRev)
           st == Answer(fault, [resp |-> HttpResp(201, L(bulk.results)), db |-> bulk.db])
           r == BulkCreate(st.resp, sent)
           counted == [agg EXCEPT
               !.total_success = IF r.success THEN @ + r.payload.success_count.num ELSE @,
               !.total_errors = IF r.success THEN @ + r.payload.error_count.num
                                ELSE @ + Len(batch),
               !.submitted = Append(@, [offset |-> agg.i, documents |-> sent, at |-> t,
                                        success |-> r.success,
                                        stored |-> Cardinality({k \in 1..Len(bulk.results) :
                                            fault = "none" /\ Has(bulk.results[k], "ok")})]),
               !.i = @ + agg.batch_size]
       IN /\ db' = st.db
          /\ nextRev' = IF fault = "none" THEN bulk.rev ELSE nextRev
          /\ agg' = IF HasBatch(counted.i, n, agg.batch_size)
                    THEN counted
                    ELSE [counted EXCEPT !.at = "done",
                                         !.out = RestoreResult(agg.op, ImportResult(counted))]
    /\ UNCHANGED <<pc, call, pending, result>>

NextImport ==
    \/ RestoreRefuse
    \/ ImportLoad
    \/ \E fault \in Faults, dt \in {0, 1} : ImportBatch(fault, dt)

SpecImport == InitImport /\ [][NextImport]_vars

ImportRun == agg.name = "import" /\ agg.op = "import" /\ agg.documents # <<>>
ImportDone == agg.at = "done"
RECURSIVE ErrorsCounted(_, _)
ErrorsCounted(submitted, k) ==
    IF k > Len(submitted) THEN 0
    ELSE (IF submitted[k].success
          THEN Len(submitted[k].documents) - submitted[k].stored
          ELSE Len(submitted[k].documents)) + ErrorsCounted(submitted, k + 1)
BatchesInOrder ==
    \A k \in 1..Len(agg.submitted) :
        /\ agg.submitted[k].offset = (k - 1) * agg.batch_size
        /\ k < Len(agg.submitted) => Len(agg.submitted[k].documents) = agg.batch_size
CountsAddUp ==
    /\ Has(agg.out.payload, "success_count")
    /\ agg.out.payload.success_count.num + agg.out.payload.error_count.num
          = Len(agg.documents)
    /\ agg.out.payload.total_documents = N(Len(agg.documents))

(* C21: in every import_data run over D documents, whatever the outcome of *)
(* each batch, the batches are submitted in increasing offset order, a     *)
(* batch whose request fails adds its whole size to error_count and the    *)
(* batches after it are still submitted, and the result has                *)
(* success_count + error_count = total_documents = D.                      *)
C21_ImportCountsEveryDocument ==
    ImportRun =>
        /\ BatchesInOrder
        /\ agg.total_errors = ErrorsCounted(agg.submitted, 1)
        /\ ImportDone =>
              /\ CountsAddUp
              /\ agg.total_success + agg.total_errors = Len(agg.documents)

(* the documents as the file has them, and the submitted ones next to them *)
ImportInputs == ImportParse(agg.file, agg.format).payload.documents
SubmittedDocs ==
    UNION {{[sent |-> agg.submitted[k].documents[m], at |-> agg.submitted[k].at,
      input |-> ImportInputs[agg.submitted[k].offset + m]] :
        m \in 1..Len(agg.submitted[k].documents)} : k \in 1..Len(agg.submitted)}
KeepsCreatedAt(s) ==
    s.sent.created_at = IF Has(s.input, "created_at") THEN s.input.created_at
                        ELSE T(agg.stamp)
RevAsAsked(s) ==
    IF agg.update_existing
    THEN /\ Has(s.sent, "_rev") <=> Has(s.input, "_rev")
         /\ Has(s.input, "_rev") => s.sent["_rev"] = s.input["_rev"]
    ELSE ~Has(s.sent, "_rev")
RestKept(s) ==
    /\ DOMAIN s.sent \subseteq DOMAIN s.input \cup {"created_at", "updated_at"}
    /\ \A key \in DOMAIN s.input \ {"created_at", "updated_at", "_rev"} :
          Has(s.sent, key) /\ s.sent[key] = s.input[key]

(* C22 as stated: every document import_data submits has updated_at set to *)
(* the time import_data took for the import, keeps its created_at or gets  *)
(* that time, carries no _rev without update_existing and its own _rev     *)
(* with it.                                                                *)
C22_StampedWithImportTime ==
    agg.name = "import" =>
        \A s \in SubmittedDocs :
            /\ s.sent.updated_at = T(agg.stamp)
            /\ KeepsCreatedAt(s)
            /\ RevAsAsked(s)

(* C22, amended: updated_at is the time at which the document's batch was  *)
(* submitted, at or after the time import_data took; created_at is kept or *)
(* is the time import_data took; _rev as asked; every other key unchanged. *)
C22_StampedOnSubmission ==
    agg.name = "import" =>
        \A s \in SubmittedDocs :
            /\ s.sent.updated_at = T(s.at)
            /\ agg.stamp <= s.at
            /\ KeepsCreatedAt(s)
            /\ RevAsAsked(s)
            /\ RestKept(s)

C22_Witness ==
    /\ agg.name = "import" /\ agg.at = "done"
    /\ ~agg.update_existing
    /\ \E s \in SubmittedDocs :
          /\ s.at > agg.stamp
          /\ Has(s.input, "_rev") /\ Has(s.input, "created_at")
    /\ \E s \in SubmittedDocs : ~Has(s.input, "created_at")

RestoreCall == agg.name = "import" /\ agg.op = "restore"
Refused == RestoreCall /\ ~agg.confirm
Touched == agg.reads > 0 \/ agg.submitted # <<>>

(* C23: restore_database without confirm returns a failure, reads no file  *)
(* and sends no request, so the store stays as it is; a restore that reads *)
(* the file or sends a request was confirmed, and is an import of the JSON *)
(* file with update_existing on: every _rev of the file is submitted.      *)
C23_RestoreNeedsConfirm ==
    /\ [](Refused => ~Touched /\ agg.at \in {"call", "done"})
    /\ [](Refused /\ ImportDone => ~agg.out.success /\ ~agg.out.raised)
    /\ [][Refused => db' = db /\ nextRev' = nextRev]_vars
    /\ [](RestoreCall /\ Touched =>
            /\ agg.confirm /\ agg.update_existing /\ agg.format = "json"
            /\ \A s \in SubmittedDocs :
                  Has(s.input, "_rev") =>
                      Has(s.sent, "_rev") /\ s.sent["_rev"] = s.input["_rev"])

C23_Witness ==
    /\ Refused /\ ImportDone
    /\ agg.file = JsonFile(L(ImportList("backup", 2)))
    /\ DOMAIN db = {1, 3}
    /\ db[1]["_rev"] = R(2)

----------------------------------------------------------------------------
(* CouchDBAdmin.backup_database (src/scripts/admin.py): an export of every *)
(* document to the backup file, then the metadata file.  A file name is a  *)
(* sequence of parts, '.json' being a part of its own; `agg` is the export *)
(* run with the name of the backup file, the files on disk and the result  *)
(* of backup_database added to it.                                         *)

BackupNames ==
    {<<"backup", ".json">>, <<"backup">>, <<"backup", ".json", ".bak">>,
     <<"backup", ".json", ".json">>}
(* str.replace(old, new): every occurrence *)
StrReplace(name, old, new) ==
    [k \in 1..Len(name) |-> IF name[k] = old THEN new ELSE name[k]]
(* metadata_file = backup_file.replace('.json', '_metadata.json') *)
MetadataFile(backup_file) == StrReplace(backup_file, ".json", "_metadata.json")
NoFiles == [name \in {} |-> None]
WriteFile(files, name, content) ==
    [x \in DOMAIN files \cup {name} |-> IF x = name THEN content ELSE files[x]]
BackupMetadata(document_count, t) ==
    [backup_date |-> T(t), database_name |-> S("db"),
     document_count |-> document_count, couchdb_url |-> S("url")]

InitBackup ==
    /\ \E kinds \in [1..MaxExport -> {"none", "order", "product"}] :
          db = ExportStore(kinds)
    /\ nextRev = 2
    /\ now = 1
    /\ pc = [p \in Procs |-> "idle"]
    /\ call = [p \in Procs |-> NoCall]
    /\ pending = [p \in Procs |-> NoPending]
    /\ result = [p \in Procs |-> NoResult]
    /\ \E backup_file \in BackupNames :
          agg = [name |-> "export", at |-> "count", batch_size |-> DefaultBatchSize,
                 selector |-> EmptyDoc, format |-> "json", skip |-> 0,
                 all_documents |-> <<>>, sent |-> <<>>, received |-> 0, pages |-> <<>>,
                 file |-> None, out |-> NoResult,
                 backup_file |-> backup_file, files |-> NoFiles, returned |-> NoResult]

(* export_data has returned: the file it wrote is on disk; on success the  *)
(* metadata file is written, outside any try                               *)
BackupFinish(io) ==
    /\ agg.name = "export" /\ agg.at = "done"
    /\ agg.returned = NoResult
    /\ LET exported == IF agg.file = None THEN agg.files
                       ELSE WriteFile(agg.files, agg.backup_file, agg.file)
           metadata_file == MetadataFile(agg.backup_file)
       IN agg' =
            IF ~agg.out.success
            THEN [agg EXCEPT !.files = exported, !.returned = agg.out]
            ELSE IF io # "none"
            THEN [agg EXCEPT !.files = exported, !.returned = Raised("OSError")]
            ELSE [agg EXCEPT
                    !.files = WriteFile(exported, metadata_file,
                                 BackupMetadata(agg.out.payload.document_count, now)),
                    !.returned = Returned(TRUE, NoErr, "Database backup created",
                                    [metadata_file |-> metadata_file,
                                     document_count |-> agg.out.payload.document_count])]
    /\ UNCHANGED <<db, nextRev, now, pc, call, pending, result>>

NextBackup ==
    \/ ExportSend
    \/ \E fault \in FindFaults, io \in Faults : ExportReceive(fault, io)
    \/ \E io \in Faults : BackupFinish(io)

SpecBackup == InitBackup /\ [][NextBackup]_vars

BackupReturned == agg.name = "export" /\ Has(agg, "returned") /\ agg.returned # NoResult
IsMetadata(content) == Has(content, "document_count")

(* C24: for every backup file name, with or without '.json' in it, after   *)
(* backup_database returns success the backup file holds the exported      *)
(* documents and the metadata is in another file, whose document_count is  *)
(* the number of documents exported; when the export fails no metadata     *)
(* file is written.                                                        *)
C24_BackupAndSidecar ==
    BackupReturned =>
        IF agg.returned.success
        THEN /\ agg.backup_file \in DOMAIN agg.files
             /\ agg.files[agg.backup_file] =
                   [format |-> "json", documents |-> agg.all_documents]
             /\ agg.returned.payload.metadata_file # agg.backup_file
             /\ agg.returned.payload.metadata_file \in DOMAIN agg.files
             /\ agg.files[agg.returned.payload.metadata_file].document_count
                   = N(Len(agg.all_documents))
        ELSE \A name \in DOMAIN agg.files : ~IsMetadata(agg.files[name])

----------------------------------------------------------------------------
(* Export to CSV, then import of the file written (src/scripts/admin.py,   *)
(* export_data 219-245 and import_data 299-339), as functions of the       *)
(* documents exported.  csv.DictWriter and csv.DictReader are the file of  *)
(* rows of cells; what the code does to a value before it is a cell and to *)
(* a cell after it is read is CsvCell and CsvValue.                        *)

MaxRoundTrip == 2
NestedValues ==
    {O(EmptyDoc), L(<<>>),
     O([brand |-> S("X")]),
     O([brand |-> S("X"), wireless |-> B(TRUE), years |-> N(2), color |-> None]),
     L(<<N(1), S("1")>>),
     L(<<O([product_id |-> I(1), quantity |-> N(2)])>>),
     O([sizes |-> L(<<L(<<>>), O(EmptyDoc)>>)]),
     O([note |-> Chars(<<P("{"), S("x")>>), at |-> T(0)])}
PlainValues == {S("Books"), N(10), B(TRUE), None}
RoundTripDoc(k, v) ==
    IF v = S("") THEN [_id |-> I(k), _rev |-> R(1)]
    ELSE [_id |-> I(k), _rev |-> R(1), metadata |-> v]
RoundTripSets ==
    UNION {[1..n -> NestedValues \cup PlainValues \cup {S("")}] : n \in 0..MaxRoundTrip}

InitRoundTrip ==
    /\ db = EmptyDoc
    /\ nextRev = 2
    /\ now = 1
    /\ pc = [p \in Procs |-> "idle"]
    /\ call = [p \in Procs |-> NoCall]
    /\ pending = [p \in Procs |-> NoPending]
    /\ result = [p \in Procs |-> NoResult]
    /\ \E values \in RoundTripSets, update_existing \in BOOLEAN :
          agg = [name |-> "roundtrip", at |-> "export",
                 documents |-> [k \in 1..Len(values) |-> RoundTripDoc(k, values[k])],
                 update_existing |-> update_existing,
                 file |-> None, imported |-> <<>>]

(* export_data, format csv: the file written from the documents fetched *)
RoundTripExport ==
    /\ agg.name = "roundtrip" /\ agg.at = "export"
    /\ LET written == ExportWrite(agg.documents, "csv", "none")
       IN agg' = [agg EXCEPT !.file = written.file,
                             !.at = IF written.out.success THEN "import" ELSE "done"]
    /\ UNCHANGED <<db, nextRev, now, pc, call, pending, result>>

(* import_data, format csv: the documents read from the file and stamped *)
RoundTripImport ==
    /\ agg.name = "roundtrip" /\ agg.at = "import"
    /\ LET documents == ImportParse(agg.file, "csv").payload.documents
       IN agg' = [agg EXCEPT
                    !.imported = [k \in 1..Len(documents) |->
                                    ImportStamp(documents[k], now, agg.update_existing)],
                    !.at = "done"]
    /\ UNCHANGED <<db, nextRev, now, pc, call, pending, result>>

NextRoundTrip == RoundTripExport \/ RoundTripImport

SpecRoundTrip == InitRoundTrip /\ [][NextRoundTrip]_vars

RoundTripDone == agg.name = "roundtrip" /\ agg.at = "done" /\ agg.file # None

(* C25: for every set of documents, after export to CSV and import of the  *)
(* file, every document is read back and every key whose original value   *)
(* is an object or an array has a value equal to the original.             *)
C25_NestedValuesRoundTrip ==
    RoundTripDone =>
        /\ Len(agg.imported) = Len(agg.documents)
        /\ \A k \in 1..Len(agg.documents) :
              \A key \in DOMAIN agg.documents[k] :
                 IsNested(agg.documents[k][key]) =>
                    /\ Has(agg.imported[k], key)
                    /\ agg.imported[k][key] = agg.documents[k][key]
C25_Witness ==
    /\ RoundTripDone
    /\ Len(agg.documents) = 2
    /\ Has(agg.documents[1], "metadata")
    /\ agg.documents[1].metadata = O([brand |-> S("X")])
    /\ agg.file.rows[1].metadata = <<P("{"), Q(S("brand")), P(":"), Q(S("X")), P("}")>>
    /\ agg.imported[1].metadata.obj.brand = S("X")
    /\ ~Has(agg.documents[2], "metadata")
    /\ agg.imported[2].metadata = S("")

----------------------------------------------------------------------------
(* The schema constructors (src/src/models.py).  uuid.uuid4() is a value   *)
(* never returned before: the number of identifiers generated so far.      *)
(* `agg` holds the documents built, in the order of the calls.             *)

MaxMade == 3
SchemaKinds == {"product", "order", "customer", "analytics_event"}
(* f"{prefix}_{DataModel.generate_id()}" *)
PrefixedId(prefix, uuid) == [prefix |-> prefix, uuid |-> uuid]
(* value or {} *)
OrEmpty(value) == IF value \in {None, O(EmptyDoc)} THEN O(EmptyDoc) ELSE value

create_product(name, category, price, metadata, uuid, t) ==
    [_id |-> PrefixedId("product", uuid), type |-> S("product"), name |-> name,
     category |-> category, price |-> price, description |-> S(""),
     status |-> S("active"), metadata |-> OrEmpty(metadata),
     created_at |-> T(t), updated_at |-> T(t), version |-> N(1)]
create_order(customer_id, products, total, uuid, t) ==
    [_id |-> PrefixedId("order", uuid), type |-> S("order"),
     customer_id |-> customer_id, products |-> products, total |-> total,
     status |-> S("pending"), shipping_address |-> O(EmptyDoc),
     created_at |-> T(t), updated_at |-> T(t), version |-> N(1)]
create_customer(name, email, address, uuid, t) ==
    [_id |-> PrefixedId("customer", uuid), type |-> S("customer"), name |-> name,
     email |-> email, phone |-> S(""), address |-> OrEmpty(address),
     metadata |-> O(EmptyDoc),
     created_at |-> T(t), updated_at |-> T(t), version |-> N(1)]
create_event(event_type, entity_id, entity_type, user_id, uuid, t) ==
    [_id |-> PrefixedId("event", uuid), type |-> S("analytics_event"),
     event_type |-> event_type, entity_id |-> entity_id, entity_type |-> entity_type,
     event_data |-> O(EmptyDoc), user_id |-> user_id,
     timestamp |-> T(t), created_at |-> T(t), version |-> N(1)]

InitFactory ==
    /\ db = EmptyDoc
    /\ nextRev = 2
    /\ now \in 0..1
    /\ pc = [p \in Procs |-> "idle"]
    /\ call = [p \in Procs |-> NoCall]
    /\ pending = [p \in Procs |-> NoPending]
    /\ result = [p \in Procs |-> NoResult]
    /\ agg = [name |-> "factory", kinds |-> <<>>, made |-> <<>>]

(* one call of a constructor, at the time t the clock shows *)
FactoryCall(kind, nested, dt) ==
    /\ agg.name = "factory"
    /\ Len(agg.made) < MaxMade
    /\ now + dt <= MaxTime
    /\ LET uuid == Len(agg.made) + 1
           t == now + dt
           doc == IF kind = "product"
                  THEN create_product(S("Phone"), S("Books"), N(10), nested, uuid, t)
                  ELSE IF kind = "order"
                  THEN create_order(S("c1"), L(<<>>), N(10), uuid, t)
                  ELSE IF kind = "customer"
                  THEN create_customer(S("Alice"), S("a@b"), nested, uuid, t)
                  ELSE create_event(S("purchase"), S("o1"), S("order"), nested, uuid, t)
       IN agg' = [agg EXCEPT !.kinds = Append(@, kind), !.made = Append(@, doc)]
    /\ now' = now + dt
    /\ UNCHANGED <<db, nextRev, pc, call, pending, result>>

NextFactory ==
    \E kind \in SchemaKinds, nested \in {None, O([city |-> S("Paris")])}, dt \in {0, 1} :
        FactoryCall(kind, nested, dt)

SpecFactory == InitFactory /\ [][NextFactory]_vars

(* the prefix of an identifier and a type name the same kind; the prefix   *)
(* event is taken as naming the analytics event                            *)
SameKind(prefix, type) ==
    \/ type = S(prefix)
    \/ prefix = "event" /\ type = S("analytics_event")
BuiltBy(kind) ==
    {agg.made[k] : k \in {j \in 1..Len(agg.made) : agg.kinds[j] = kind}}

(* C26: every document built by a constructor (product, customer, order,   *)
(* analytics event) has an _id made of its kind as prefix and a fresh      *)
(* part, a type naming the same kind, created_at and updated_at, and       *)
(* version 1; no two calls return the same _id.                            *)
C26_FactoryDocumentShape ==
    agg.name = "factory" =>
        /\ \A k \in 1..Len(agg.made) :
              LET doc == agg.made[k]
              IN /\ doc.type = S(agg.kinds[k])
                 /\ SameKind(doc._id.prefix, doc.type)
                 /\ Has(doc, "created_at") /\ Has(doc, "updated_at")
                 /\ doc.version = N(1)
        /\ \A j, k \in 1..Len(agg.made) :
              j # k => agg.made[j]._id # agg.made[k]._id

----------------------------------------------------------------------------
(* import_data reading a CSV file (src/scripts/admin.py:299-313), as a     *)
(* function of the cells of the file: two rows with one column, the first  *)
(* cell any text of up to MaxCell tokens, the second a plain string.       *)

MaxCell == 5
CellTokens ==
    {P("{"), P("}"), P("["), P("]"), P(":"), P(","), Q(S("a")), S("1"), S("x")}
CellTexts == UNION {[1..n -> CellTokens] : n \in 0..MaxCell}

InitCells ==
    /\ db = EmptyDoc
    /\ nextRev = 2
    /\ now = 1
    /\ pc = [p \in Procs |-> "idle"]
    /\ call = [p \in Procs |-> NoCall]
    /\ pending = [p \in Procs |-> NoPending]
    /\ result = [p \in Procs |-> NoResult]
    /\ \E cell \in CellTexts :
          agg = [name |-> "cells", at |-> "file",
                 file |-> [format |-> "csv", fieldnames |-> {"category"},
                           rows |-> <<[category |-> cell],
                                      [category |-> <<S("Books")>>]>>],
                 documents |-> <<>>]

(* the loop over csv.DictReader(f) *)
CellsImport ==
    /\ agg.name = "cells" /\ agg.at = "file"
    /\ agg' = [agg EXCEPT !.documents = ImportParse(agg.file, "csv").payload.documents,
                          !.at = "done"]
    /\ UNCHANGED <<db, nextRev, now, pc, call, pending, result>>

NextCells == CellsImport

SpecCells == InitCells /\ [][NextCells]_vars

CellsDone == agg.name = "cells" /\ agg.at = "done"
LooksLikeJson(cell) == cell # <<>> /\ cell[1] \in {P("{"), P("[")}
IsString(v) == DOMAIN v \in {{"str"}, {"chars"}}

(* C27: on CSV import a cell becomes an object or an array exactly when it *)
(* is not empty, starts with '{' or '[' and parses as JSON, and is then    *)
(* the value parsed; every other cell is kept as the string read from the  *)
(* file.                                                                   *)
C27_CellParsedOrKept ==
    CellsDone =>
        /\ Len(agg.documents) = Len(agg.file.rows)
        /\ \A k \in 1..Len(agg.file.rows) :
              LET cell == agg.file.rows[k].category
                  value == agg.documents[k].category
              IN /\ IsNested(value) <=> (LooksLikeJson(cell) /\ JsonLoads(cell).ok)
                 /\ IsNested(value) => value = JsonLoads(cell).value
                 /\ ~IsNested(value) => IsString(value) /\ PyStr(value) = cell
C27_Witness ==
    /\ CellsDone
    /\ agg.file.rows[1].category = <<P("{"), Q(S("a")), P(":"), S("1"), P("}")>>
    /\ agg.documents[1].category = O([a |-> N(1)])
    /\ agg.documents[2].category = S("Books")

----------------------------------------------------------------------------
(* restore_database as a replacement of the store's content (SpecImport)   *)

Restored == RestoreCall /\ agg.confirm /\ ImportDone /\ agg.out.success
(* the store holds the document with the content the backup has for it;    *)
(* the revision and updated_at are the store's and the import's to set     *)
HoldsBackupOf(doc) ==
    /\ doc._id.id \in DOMAIN db
    /\ \A key \in DOMAIN doc \ {"_rev", "updated_at"} :
          Has(db[doc._id.id], key) /\ db[doc._id.id][key] = doc[key]
BackupContentStored ==
    \A k \in 1..Len(agg.documents) : HoldsBackupOf(agg.documents[k])
NothingElseStored ==
    \A id \in DOMAIN db : \E k \in 1..Len(agg.documents) : agg.documents[k]._id = I(id)

(* C28: after restore_database(backup, confirm=True) returns success,      *)
(* every document of the backup file is stored with the backup's content,  *)
(* documents modified in the store since the backup included, and the      *)
(* store holds no document that is absent from the backup.                 *)
C28_RestoreReplacesAll ==
    Restored => BackupContentStored /\ NothingElseStored

----------------------------------------------------------------------------
(* CouchDBClient.update and replace (src/src/database.py) called by two    *)
(* callers with patches that may carry an _id or a _rev of their own, as a *)
(* document read earlier and passed back does.                             *)

CarriedPatches ==
    { [total |-> N(30), _rev |-> R(1)],
      [status |-> S("shipped"), _id |-> I(MaxDocs + 1)],
      [total |-> N(30), _id |-> I(1)] }
UpdatePatches == Patches \cup CarriedPatches

NextUpdate ==
    \/ \E p \in Procs, id \in DocIds, updates \in UpdatePatches, merge \in BOOLEAN,
          fault \in GetFaults : DoUpdate(p, id, updates, merge, fault)
    \/ \E p \in Procs, fault \in Faults : UpdatePut(p, fault)

SpecUpdate == Init /\ [][NextUpdate]_vars

(* the caller is in an update whose PUT is built or was sent *)
PutBuilt(p) ==
    call[p].op = "update" /\ (pc[p] = "update_put" \/ pending[p].sent)
ReadFailed(p) ==
    call[p].op = "update" /\ pc[p] = "idle" /\ ~pending[p].sent

(* C29: for every update, merging or replacing, and every patch, one with  *)
(* an _id or a _rev of its own included, the _id and _rev of the document  *)
(* sent in the PUT are those of the document the update has just read;     *)
(* when the read fails no PUT is sent and a failure is returned.           *)
C29_PutCarriesReadRevision ==
    \A p \in Procs :
        /\ PutBuilt(p) =>
              /\ Get(pending[p].doc, "_id", None) = Get(pending[p].current_doc, "_id", None)
              /\ Get(pending[p].doc, "_rev", None) = Get(pending[p].current_doc, "_rev", None)
        /\ ReadFailed(p) => ~result[p].success /\ pending[p].doc = EmptyDoc

----------------------------------------------------------------------------
(* AnalyticsEngine.create_mapreduce_view and setup_analytics_views         *)
(* (src/src/analytics.py): one run of the setup against a store that holds *)
(* the design document or not, while another client may write a view of    *)
(* its own into the same document.  `agg` holds the run: the index of the  *)
(* view being created, the document about to be PUT and the results.       *)

MaxOthers == 1
DesignId == "_design/analytics"
ViewDef(name) == O([map |-> S(name), reduce |-> S("reduce")])
(* views_to_create *)
AnalyticsViews ==
    <<[view_name |-> "sales_by_month", view_definition |-> ViewDef("sales_map")],
      [view_name |-> "products_by_category", view_definition |-> ViewDef("category_map")]>>
DesignDoc(views, rev) ==
    [_id |-> I(DesignId), views |-> O(views), _rev |-> R(rev)]
DesignStores ==
    {[x \in {} |-> EmptyDoc],
     [x \in {DesignId} |-> [_id |-> I(DesignId), language |-> S("javascript"), _rev |-> R(1)]]}
      \cup {[x \in {DesignId} |-> DesignDoc(views, 1)] :
               views \in {EmptyDoc,
                          [custom |-> ViewDef("custom_map")],
                          [sales_by_month |-> ViewDef("old_map")],
                          [sales_by_month |-> ViewDef("sales_map"),
                           products_by_category |-> ViewDef("category_map")],
                          [custom |-> ViewDef("custom_map"),
                           products_by_category |-> ViewDef("old_map")]}}

InitDesign ==
    /\ db \in DesignStores
    /\ nextRev = 2
    /\ now = 1
    /\ pc = [p \in Procs |-> "idle"]
    /\ call = [p \in Procs |-> NoCall]
    /\ pending = [p \in Procs |-> NoPending]
    /\ result = [p \in Procs |-> NoResult]
    /\ agg = [name |-> "setup", i |-> 1, at |-> "read", design_doc |-> EmptyDoc,
              results |-> <<>>, others |-> 0]

(* a create that sends the named view alone under the revision just read *)
DesignDocAlone(existing_result, view_name, view_definition) ==
    LET alone == [_id |-> I(DesignId), views |-> O([k \in {view_name} |-> view_definition])]
    IN [raised |-> FALSE,
        doc |-> IF existing_result.success
                   /\ Has(existing_result.payload.document, "_rev")
                THEN Put(alone, "_rev", existing_result.payload.document["_rev"])
                ELSE alone]
(* create_mapreduce_view: the document to PUT, from the result of the read *)
DesignDocBuild(existing_result, view_name, view_definition) ==
    LET design_doc == [_id |-> I(DesignId),
                       views |-> O([k \in {view_name} |-> view_definition])]
    IN IF ~existing_result.success THEN [raised |-> FALSE, doc |-> design_doc]
       ELSE LET existing_doc == existing_result.payload.document IN
            IF ~Has(existing_doc, "views") THEN [raised |-> TRUE, doc |-> EmptyDoc]
            ELSE [raised |-> FALSE,
                  doc |-> Put(existing_doc, "views",
                              O(Put(existing_doc.views.obj, view_name, view_definition)))]
(* create_mapreduce_view: the result built from the PUT's response *)
CreateViewResult(resp) ==
    Try(IF resp.exc # "" THEN Raised(resp.exc)
        ELSE IF resp.status \in {201, 200}
        THEN Returned(TRUE, NoErr, "View created/updated successfully", EmptyDoc)
        ELSE Returned(FALSE, ErrHttp(resp.status), "Failed to create view", EmptyDoc),
        "Exception occurred while creating view")
(* results.append((view_name, result)) and the next turn of the loop *)
SetupNext(run, r) ==
    [run EXCEPT !.results = Append(@, [view_name |-> AnalyticsViews[run.i].view_name,
                                       result |-> r]),
                !.i = @ + 1,
                !.at = IF run.i = Len(AnalyticsViews) THEN "done" ELSE "read",
                !.design_doc = EmptyDoc]

(* create_mapreduce_view up to its PUT *)
SetupRead(fault) ==
    /\ agg.name = "setup" /\ agg.at = "read"
    /\ LET view == AnalyticsViews[agg.i]
           existing_result == Read(GetResp(DesignId, fault))
           built == DesignDocBuild(existing_result, view.view_name, view.view_definition)
       IN agg' = IF built.raised
                 THEN SetupNext(agg, Try(Raised("KeyError"),
                                         "Exception occurred while creating view"))
                 ELSE [agg EXCEPT !.at = "put", !.design_doc = built.doc]
    /\ UNCHANGED <<db, nextRev, now, pc, call, pending, result>>

(* the PUT and the result *)
SetupPut(fault) ==
    /\ agg.name = "setup" /\ agg.at = "put"
    /\ LET st == Answer(fault, StorePut(db, DesignId, agg.design_doc, nextRev))
       IN /\ Commit(st)
          /\ agg' = SetupNext(agg, CreateViewResult(st.resp))
    /\ UNCHANGED <<now, pc, call, pending, result>>

(* another client stores a view of its own in the design document *)
OtherWrite ==
    /\ agg.name = "setup" /\ agg.others < MaxOthers
    /\ LET views == IF DesignId \in DOMAIN db /\ Has(db[DesignId], "views")
                    THEN db[DesignId].views.obj ELSE EmptyDoc
           doc == IF DesignId \in DOMAIN db THEN db[DesignId] ELSE [_id |-> I(DesignId)]
       IN db' = Stored(db, DesignId,
                       Put(doc, "views", O(Put(views, "other", ViewDef("other_map")))),
                       nextRev)
    /\ nextRev' = nextRev + 1
    /\ agg' = [agg EXCEPT !.others = @ + 1]
    /\ UNCHANGED <<now, pc, call, pending, result>>

NextDesign ==
    \/ \E fault \in ReadFaults : SetupRead(fault)
    \/ \E fault \in Faults : SetupPut(fault)
    \/ OtherWrite

SpecDesign == InitDesign /\ [][NextDesign]_vars

ViewsOf(d) ==
    IF DesignId \in DOMAIN d /\ Has(d[DesignId], "views") THEN d[DesignId].views.obj
    ELSE EmptyDoc
SetupDone == agg.name = "setup" /\ agg.at = "done"
BothCreated == SetupDone /\ \A k \in 1..Len(agg.results) : agg.results[k].result.success
(* a step keeps every view but the one being created *)
KeepsOtherViews ==
    agg.name = "setup" /\ agg.at = "put" =>
        \A name \in DOMAIN ViewsOf(db) \ {AnalyticsViews[agg.i].view_name} :
            Has(ViewsOf(db'), name) /\ ViewsOf(db')[name] = ViewsOf(db)[name]
(* a create that succeeded has stored the named view as given *)
StoresNamedView ==
    agg.name = "setup" /\ agg.at = "put" /\ Len(agg'.results) > Len(agg.results)
        /\ agg'.results[Len(agg'.results)].result.success =>
            /\ Has(ViewsOf(db'), AnalyticsViews[agg.i].view_name)
            /\ ViewsOf(db')[AnalyticsViews[agg.i].view_name]
                  = AnalyticsViews[agg.i].view_definition

(* C30: create_mapreduce_view keeps every view the design document already *)
(* defines and adds or replaces only the named one; once                   *)
(* setup_analytics_views has created both views successfully, from any     *)
(* store state, the design document defines sales_by_month and             *)
(* products_by_category as given.                                          *)
C30_SetupKeepsViews ==
    /\ [][KeepsOtherViews /\ StoresNamedView]_vars
    /\ [](BothCreated =>
            \A k \in 1..Len(AnalyticsViews) :
                /\ Has(ViewsOf(db), AnalyticsViews[k].view_name)
                /\ ViewsOf(db)[AnalyticsViews[k].view_name]
                      = AnalyticsViews[k].view_definition)
C30_Witness ==
    /\ BothCreated
    /\ DOMAIN ViewsOf(db) = {"custom", "other", "sales_by_month", "products_by_category"}
    /\ ViewsOf(db)["products_by_category"] = ViewDef("category_map")
    /\ ViewsOf(db)["custom"] = ViewDef("custom_map")

====
